---- MODULE Spec2Model ----
(***************************************************************************)
(* Model of the Discord -> GitHub -> OpenAI -> Asana task bridge.          *)
(*                                                                         *)
(* The repository holds two entry points (src/src/index.ts): the gateway   *)
(* listener (lines 1-33, persistent session, "Mode A") and the webhook     *)
(* server (lines 35-262, signed HTTP interactions, "Mode B"); and two      *)
(* revisions of handleTask (src/src/modules/handleTask.ts): lines 6-52     *)
(* with error handling and lines 59-77 without.  The orchestrator the      *)
(* webhook server calls (handleTask({describe, projectOption, ...}),       *)
(* returning the message) is not in the sources and is modelled from the   *)
(* specification, section 4.3.                                             *)
(*                                                                         *)
(* An async function runs without interruption from one await to the next, *)
(* so every action below is the code between two awaits of one handler.    *)
(* JavaScript strings are TLA+ strings; the warning sign U+26A0 U+FE0F is  *)
(* written "(!)" because a TLA+ string holds ASCII only.                   *)
(***************************************************************************)
EXTENDS Integers, Sequences, FiniteSets

VARIABLES
    env,      \* process.env, read-only after start-up
    deploy,   \* which entry point and which handleTask revision runs
    live,     \* the interactions of this behaviour
    run,      \* run[i]: the state of the handling of interaction i
    unit      \* the last application of a function on its own, see UnitSpec

vars == <<env, deploy, live, run, unit>>

Ids == {1, 2}

(***************************************************************************)
(* JavaScript values that may be null or undefined.                        *)
(***************************************************************************)
Undefined == [t |-> "undefined", v |-> ""]
JsNull == [t |-> "null", v |-> ""]
Str(s) == [t |-> "string", v |-> s]

\* a ?? b
Coalesce(a, b) == IF a.t \in {"undefined", "null"} THEN b ELSE a

\* !a is false
Truthy(a) == a.t = "string" /\ a.v # ""

\* `${a}`
TemplateString(a) == IF a.t = "string" THEN a.v ELSE a.t

(***************************************************************************)
(* Thrown values: an Error with a message, or something that is no Error.  *)
(***************************************************************************)
Err(m) == [isError |-> TRUE, message |-> m]
NonError == [isError |-> FALSE, message |-> ""]
NoError == [isError |-> FALSE, message |-> "<none>"]

\* What a remote call (a provider's API, Discord's REST or gateway) may throw.
ThrownValues == {Err("request failed"), Err(""), NonError}

WarningPrefix == "(!) Unable to create task: "
UnexpectedText == "Unexpected error while creating the Asana task."

\* FailureCause as it would be if the thrown message were dropped.
FailureCause_generic(error) == UnexpectedText

\* FailureCause as it would be without the test of the message: an Error
\* with an empty message leaves the cause empty.
FailureCause_emptyMessage(error) ==
    IF error.isError THEN error.message ELSE UnexpectedText

\* error instanceof Error && error.message ? error.message : 'Unexpected ...'
FailureCause(error) ==
    IF error.isError /\ error.message # "" THEN error.message ELSE UnexpectedText

\* FailureMessage as it would be without the warning prefix.
FailureMessage_noPrefix(error) == FailureCause(error)

FailureMessage(error) == WarningPrefix \o FailureCause(error)

CreatedMessage(asanaUrl) == "Created: " \o asanaUrl

(***************************************************************************)
(* Context provider adapter: findRepoContext (GitHub code search).         *)
(***************************************************************************)
\* How many search hits the model lets the search API return.
MaxItems == 1

\* per_page: 5
PerPage == 5

SearchItem(k) ==
    [full_name |-> "your-org/app",
     path |-> IF k = 1 THEN "src/login.ts" ELSE "src/other.ts",
     html_url |-> IF k = 1 THEN "https://github.test/login.ts"
                  ELSE "https://github.test/other.ts"]

ItemCounts == {n \in 0..MaxItems : n <= PerPage}

\* What octokit.search.code may do: return items, or throw.
SearchOutcomes ==
    {[ok |-> TRUE, items |-> [k \in 1..n |-> SearchItem(k)], error |-> NoError] :
        n \in ItemCounts}
    \cup {[ok |-> FALSE, items |-> <<>>, error |-> e] : e \in ThrownValues}

\* The promise findRepoContext returns, once the search call has settled.
findRepoContext(o) ==
    IF ~o.ok
    THEN [ok |-> FALSE, value |-> <<>>, error |-> o.error]
    ELSE [ok |-> TRUE,
          value |-> [k \in 1..Len(o.items) |->
                        [repo |-> o.items[k].full_name,
                         path |-> o.items[k].path,
                         url |-> o.items[k].html_url]],
          error |-> NoError]

(***************************************************************************)
(* Extraction provider adapter: extractTask (OpenAI Responses API).        *)
(***************************************************************************)
TextConforming == "{\"title\":\"Fix login bug\",\"body\":\"Investigate login failures.\"}"
TextNoTitle == "{\"body\":\"Investigate login failures.\"}"
TextNoBody == "{\"title\":\"Fix login bug\"}"
TextGarbage == "Sure! Here is your task"

NoTask == [title |-> Undefined, body |-> Undefined]

\* JSON.parse on the texts of the model: the parsed object, or a SyntaxError.
JsonParseTask(text) ==
    CASE text = TextConforming ->
            [ok |-> TRUE,
             value |-> [title |-> Str("Fix login bug"),
                        body |-> Str("Investigate login failures.")],
             error |-> NoError]
      [] text = TextNoTitle ->
            [ok |-> TRUE,
             value |-> [title |-> Undefined,
                        body |-> Str("Investigate login failures.")],
             error |-> NoError]
      [] text = TextNoBody ->
            [ok |-> TRUE,
             value |-> [title |-> Str("Fix login bug"), body |-> Undefined],
             error |-> NoError]
      [] OTHER ->
            [ok |-> FALSE, value |-> NoTask,
             error |-> Err("Unexpected token in JSON")]

\* What client.responses.create may do: return a response whose output_text
\* is a string or undefined, or throw.
ExtractionOutcomes ==
    {[ok |-> TRUE, output_text |-> t, error |-> NoError] :
        t \in {Str(TextConforming), Str(TextNoTitle), Str(TextNoBody),
               Str(TextGarbage), Undefined}}
    \cup {[ok |-> FALSE, output_text |-> Undefined, error |-> e] : e \in ThrownValues}

\* The promise extractTask returns, once responses.create has settled:
\* JSON.parse(resp.output_text!) and nothing else, no check of title or body.
extractTask(o) ==
    IF ~o.ok
    THEN [ok |-> FALSE, value |-> NoTask, error |-> o.error]
    ELSE JsonParseTask(TemplateString(o.output_text))

(***************************************************************************)
(* Task sink adapter: createAsanaTask.                                     *)
(***************************************************************************)
AsanaResponse(defined, hasData, gid) ==
    [defined |-> defined, hasData |-> hasData, gid |-> gid]

\* What tasksApi.createTask may do: return a TaskResponse
\* (types/asana.d.ts: data?: { gid?: string }), or throw.
SinkOutcomes ==
    {[ok |-> TRUE, response |-> r, error |-> NoError] :
        r \in {AsanaResponse(FALSE, FALSE, Undefined),
               AsanaResponse(TRUE, FALSE, Undefined),
               AsanaResponse(TRUE, TRUE, Undefined),
               AsanaResponse(TRUE, TRUE, Str("")),
               AsanaResponse(TRUE, TRUE, Str("1207"))}}
    \cup {[ok |-> FALSE, response |-> AsanaResponse(FALSE, FALSE, Undefined),
           error |-> e] : e \in ThrownValues}

NoGidText == "Asana task creation returned no task gid"

\* createAsanaTask as it would be without the check of the task's gid.
createAsanaTask_noGidCheck(params, o) ==
    IF ~o.ok
    THEN [ok |-> FALSE, value |-> "", error |-> o.error]
    ELSE LET gid == IF o.response.defined /\ o.response.hasData
                    THEN o.response.gid ELSE Undefined
         IN  [ok |-> TRUE,
              value |-> "https://app.asana.com/0/"
                        \o TemplateString(params.projectGid) \o "/"
                        \o TemplateString(gid),
              error |-> NoError]

\* The promise createAsanaTask returns, once createTask has settled.
createAsanaTask(params, o) ==
    IF ~o.ok
    THEN [ok |-> FALSE, value |-> "", error |-> o.error]
    ELSE LET gid == IF o.response.defined /\ o.response.hasData
                    THEN o.response.gid ELSE Undefined
         IN  IF ~Truthy(gid)
             THEN [ok |-> FALSE, value |-> "", error |-> Err(NoGidText)]
             ELSE [ok |-> TRUE,
                   value |-> "https://app.asana.com/0/"
                             \o TemplateString(params.projectGid) \o "/" \o gid.v,
                   error |-> NoError]

(***************************************************************************)
(* The state of one interaction's handling.                                *)
(***************************************************************************)
NoEvent ==
    [isChatInputCommand |-> FALSE, commandName |-> "", describe |-> JsNull,
     project |-> JsNull, section |-> JsNull, priority |-> JsNull]

NoInteraction ==
    [type |-> "", application_id |-> "", token |-> "", hasData |-> FALSE,
     dataType |-> "", name |-> "", hasOptions |-> FALSE, options |-> <<>>]

NoRequest ==
    [method |-> "", url |-> Undefined, signature |-> Undefined,
     timestamp |-> Undefined, rawBody |-> ""]

NoArgs ==
    [fn |-> "", describe |-> Undefined, priority |-> Undefined, repoContext |-> <<>>,
     name |-> Undefined, notes |-> Undefined, projectGid |-> Undefined,
     sectionRef |-> Undefined]

\* No function has been applied on its own.
NoUnit == [fn |-> "none", args |-> [none |-> TRUE], outcome |-> [none |-> TRUE],
           result |-> [none |-> TRUE]]

RunInit ==
    [pc |-> "idle",
     event |-> NoEvent,          \* the gateway's interaction
     req |-> NoRequest,          \* the webhook server's HTTP request
     command |-> NoInteraction,  \* its parsed interaction
     http |-> <<>>,              \* the HTTP responses ended (res.end)
     chain |-> "none",           \* the .then(...).catch(...) chain on the promise
     chainReason |-> NoError,    \* what the then callback rejected with
     describe |-> Undefined, projectGid |-> Undefined,
     sectionHint |-> Undefined, priority |-> Undefined,
     repoContext |-> <<>>, task |-> NoTask, asanaUrl |-> "",
     promise |-> "none",         \* handleTask's promise
     value |-> "",               \* what it resolved with
     reason |-> NoError,         \* what it rejected with
     thrown |-> NoError,         \* what the provider call that failed threw
     trace |-> <<>>,             \* the calls and their settlements, in order
     calls |-> <<>>,             \* the provider calls, with their arguments
     sent |-> <<>>]              \* the messages handed to Discord

Trace(r, e) == [r EXCEPT !.trace = Append(@, e)]

\* A message handed to Discord: op is deferReply, editReply or PATCH; to is
\* the interaction object, or the webhook URL's application id and token.
SendTo(r, op, to, content, flags, mentions) ==
    [r EXCEPT !.sent = Append(@, [op |-> op, to |-> to, content |-> content,
                                  flags |-> flags, allowed_mentions |-> mentions,
                                  result |-> "pending"]),
              !.trace = Append(@, op \o ":call")]

Send(r, op, content, flags, mentions) ==
    SendTo(r, op, "interaction", content, flags, mentions)

\* The outstanding message settles: Discord took it, or the call threw.
Settle(r, o) ==
    LET n == Len(r.sent)
    IN  [r EXCEPT !.sent[n].result = IF o.ok THEN "ok" ELSE "failed",
                  !.trace = Append(@, r.sent[n].op \o (IF o.ok THEN ":ok" ELSE ":throw"))]

\* A provider adapter is called and its remote call is outstanding.
CallProvider(r, args) ==
    [r EXCEPT !.calls = Append(@, args),
              !.trace = Append(@, args.fn \o ":call"),
              !.pc = args.fn]

\* The outstanding provider call settles.
Returned(r, fn, res) ==
    [Trace(r, fn \o (IF res.ok THEN ":return" ELSE ":throw")) EXCEPT
        !.thrown = IF res.ok THEN @ ELSE res.error]

Resolve(r, v) == [r EXCEPT !.pc = "done", !.promise = "resolved", !.value = v]

Reject(r, error) == [r EXCEPT !.pc = "done", !.promise = "rejected", !.reason = error]

DeliveryOutcomes ==
    {[ok |-> TRUE, error |-> NoError]}
    \cup {[ok |-> FALSE, error |-> e] : e \in ThrownValues}

\* interaction.options.getString(name, true) of discord.js throws when the
\* option is absent.
OptionNotFound == Err("Required option \"describe\" not found.")

\* (the backquotes of the source's texts are written as quotes)
NoProjectText ==
    "No Asana project configured. Provide 'project' option or set ASANA_PROJECT_GID."
NoSectionText ==
    "No Asana section configured. Provide 'section' option or set ASANA_SECTION_GID."

ContextArgs(r) == [NoArgs EXCEPT !.fn = "findRepoContext", !.describe = r.describe]

ExtractArgs(r) ==
    [NoArgs EXCEPT !.fn = "extractTask", !.describe = r.describe,
                   !.priority = r.priority, !.repoContext = r.repoContext]

SinkArgs(r) ==
    [NoArgs EXCEPT !.fn = "createAsanaTask", !.name = r.task.title,
                   !.notes = r.task.body, !.projectGid = r.projectGid,
                   !.sectionRef = r.sectionHint]

(***************************************************************************)
(* handleTask, the revision with error handling (handleTask.ts 6-52).      *)
(***************************************************************************)
\* await interaction.deferReply({ ephemeral: true })
handleTask_call(r) ==
    [Send(r, "deferReply", "", "Ephemeral", "unset") EXCEPT
        !.pc = "deferReply", !.promise = "pending"]

\* The catch block, up to its await of editReply.
handleTask_catch(r, error) ==
    [Send(r, "editReply", FailureMessage(error), "unset", "unset") EXCEPT
        !.pc = "editReplyFailure"]

\* handleTask_options as it would be if the configured defaults came before
\* the command's options.
handleTask_options_envFirst(r) ==
    LET projectGid == Coalesce(env.ASANA_PROJECT_GID, r.event.project)
        sectionHint == Coalesce(env.ASANA_SECTION_GID, r.event.section)
        priority == Coalesce(Str("p2"), r.event.priority)
        q == [r EXCEPT !.describe = r.event.describe, !.projectGid = projectGid,
                       !.sectionHint = sectionHint, !.priority = priority]
    IN  IF r.event.describe.t # "string" THEN handleTask_catch(r, OptionNotFound)
        ELSE IF ~Truthy(projectGid) THEN handleTask_catch(q, Err(NoProjectText))
        ELSE IF ~Truthy(sectionHint) THEN handleTask_catch(q, Err(NoSectionText))
        ELSE CallProvider(q, ContextArgs(q))

\* The options and the two configuration checks, up to findRepoContext.
handleTask_options(r) ==
    LET projectGid == Coalesce(r.event.project, env.ASANA_PROJECT_GID)
        sectionHint == Coalesce(r.event.section, env.ASANA_SECTION_GID)
        priority == Coalesce(r.event.priority, Str("p2"))
        q == [r EXCEPT !.describe = r.event.describe, !.projectGid = projectGid,
                       !.sectionHint = sectionHint, !.priority = priority]
    IN  IF r.event.describe.t # "string" THEN handleTask_catch(r, OptionNotFound)
        ELSE IF ~Truthy(projectGid) THEN handleTask_catch(q, Err(NoProjectText))
        ELSE IF ~Truthy(sectionHint) THEN handleTask_catch(q, Err(NoSectionText))
        ELSE CallProvider(q, ContextArgs(q))

\* handleTask_deferred as it would be if a failed deferReply were only logged.
handleTask_deferred_continue(r, o) == handleTask_options(Settle(r, o))

\* deferReply settled: return when it threw, else enter the try block.
handleTask_deferred(r, o) ==
    IF ~o.ok THEN Resolve(Settle(r, o), "")
    ELSE handleTask_options(Settle(r, o))

\* handleTask_context as it would be if a failed search degraded to an empty
\* context instead of ending the run.
handleTask_context_degrade(r, res) ==
    LET q == [Returned(r, "findRepoContext", res) EXCEPT
                 !.repoContext = IF res.ok THEN res.value ELSE <<>>]
    IN  CallProvider(q, ExtractArgs(q))

\* findRepoContext settled.
handleTask_context(r, res) ==
    IF ~res.ok THEN handleTask_catch(Returned(r, "findRepoContext", res), res.error)
    ELSE LET q == [Returned(r, "findRepoContext", res) EXCEPT !.repoContext = res.value]
         IN  CallProvider(q, ExtractArgs(q))

\* handleTask_extracted as it would be with deduplication: the sink is not
\* called when another run has already called it with the same arguments.
handleTask_extracted_dedup(r, res) ==
    IF ~res.ok THEN handleTask_catch(Returned(r, "extractTask", res), res.error)
    ELSE LET q == [Returned(r, "extractTask", res) EXCEPT !.task = res.value]
             same == {j \in Ids : \E k \in DOMAIN run[j].calls :
                                      run[j].calls[k] = SinkArgs(q)}
         IN  IF same # {}
             THEN [Send(q, "editReply",
                        CreatedMessage(run[CHOOSE j \in same : TRUE].asanaUrl),
                        "unset", "unset") EXCEPT !.pc = "editReply"]
             ELSE CallProvider(q, SinkArgs(q))

\* extractTask settled.
handleTask_extracted(r, res) ==
    IF ~res.ok THEN handleTask_catch(Returned(r, "extractTask", res), res.error)
    ELSE LET q == [Returned(r, "extractTask", res) EXCEPT !.task = res.value]
         IN  CallProvider(q, SinkArgs(q))

\* createAsanaTask settled: await interaction.editReply(`Created: ${asanaUrl}`).
handleTask_created(r, res) ==
    IF ~res.ok THEN handleTask_catch(Returned(r, "createAsanaTask", res), res.error)
    ELSE LET q == [Returned(r, "createAsanaTask", res) EXCEPT !.asanaUrl = res.value]
         IN  [Send(q, "editReply", CreatedMessage(res.value), "unset", "unset") EXCEPT
                 !.pc = "editReply"]

\* The editReply of the try block settled; it is inside the try.
handleTask_edited(r, o) ==
    IF ~o.ok THEN handleTask_catch(Settle(r, o), o.error)
    ELSE Resolve(Settle(r, o), "")

\* The editReply of the catch block settled; its failure is logged.
handleTask_failureEdited(r, o) == Resolve(Settle(r, o), "")

(***************************************************************************)
(* handleTask, the revision without error handling (handleTask.ts 59-77):  *)
(* whatever an await throws rejects the promise handleTask returned.       *)
(***************************************************************************)
handleTaskBare_call(r) ==
    [Send(r, "deferReply", "", "Ephemeral", "unset") EXCEPT
        !.pc = "deferReply", !.promise = "pending"]

\* deferReply settled; the options are read with no check of the destination
\* (the ! of ASANA_PROJECT_GID! is erased by the compiler).
handleTaskBare_deferred(r, o) ==
    LET s == Settle(r, o)
        q == [s EXCEPT !.describe = r.event.describe,
                       !.projectGid = Coalesce(r.event.project, env.ASANA_PROJECT_GID),
                       !.sectionHint = Coalesce(r.event.section, env.ASANA_SECTION_GID),
                       !.priority = Coalesce(r.event.priority, Str("p2"))]
    IN  IF ~o.ok THEN Reject(s, o.error)
        ELSE IF r.event.describe.t # "string" THEN Reject(s, OptionNotFound)
        ELSE CallProvider(q, ContextArgs(q))

handleTaskBare_context(r, res) ==
    IF ~res.ok THEN Reject(Returned(r, "findRepoContext", res), res.error)
    ELSE LET q == [Returned(r, "findRepoContext", res) EXCEPT !.repoContext = res.value]
         IN  CallProvider(q, ExtractArgs(q))

handleTaskBare_extracted(r, res) ==
    IF ~res.ok THEN Reject(Returned(r, "extractTask", res), res.error)
    ELSE LET q == [Returned(r, "extractTask", res) EXCEPT !.task = res.value]
         IN  CallProvider(q, SinkArgs(q))

handleTaskBare_created(r, res) ==
    IF ~res.ok THEN Reject(Returned(r, "createAsanaTask", res), res.error)
    ELSE LET q == [Returned(r, "createAsanaTask", res) EXCEPT !.asanaUrl = res.value]
         IN  [Send(q, "editReply", CreatedMessage(res.value), "unset", "unset") EXCEPT
                 !.pc = "editReply"]

handleTaskBare_edited(r, o) ==
    IF ~o.ok THEN Reject(Settle(r, o), o.error)
    ELSE Resolve(Settle(r, o), "")

(***************************************************************************)
(* The gateway entry point (index.ts 1-33).                                *)
(***************************************************************************)
OptionValues(set) == {JsNull} \cup {Str(x) : x \in set}

\* The interactions the gateway may hand to the listener.  What is not a
\* /task chat-input command is dropped before its options are read.
GatewayEvents ==
    {e \in [isChatInputCommand : BOOLEAN, commandName : {"task", "other"},
            describe : OptionValues({"Fix login bug"}),
            project : OptionValues({"", "1201"}),
            section : OptionValues({"1202"}),
            priority : OptionValues({"p1"})] :
        (~e.isChatInputCommand \/ e.commandName # "task") =>
            /\ e.describe = JsNull /\ e.project = JsNull
            /\ e.section = JsNull /\ e.priority = JsNull}

\* client.on(Events.InteractionCreate, ...)
onInteractionCreate(r) ==
    IF ~r.event.isChatInputCommand THEN [r EXCEPT !.pc = "done"]
    ELSE IF r.event.commandName # "task" THEN [r EXCEPT !.pc = "done"]
    ELSE IF deploy.revision = "guarded" THEN handleTask_call(r)
    ELSE handleTaskBare_call(r)

(***************************************************************************)
(* The webhook entry point (index.ts 35-262): requests and their parts.    *)
(***************************************************************************)
RECURSIVE IndexOf(_, _, _)
\* s.indexOf(c), searched from the k-th character; positions count from 0.
IndexOf(s, c, k) ==
    IF k > Len(s) THEN -1
    ELSE IF SubSeq(s, k, k) = c THEN k - 1
    ELSE IndexOf(s, c, k + 1)

\* getPath as it would be if the query string were left on the path.
getPath_keepQuery(url) == IF ~Truthy(url) THEN "/" ELSE url.v

getPath(url) ==
    IF ~Truthy(url) THEN "/"
    ELSE LET index == IndexOf(url.v, "?", 1)
         IN  IF index = -1 THEN url.v ELSE SubSeq(url.v, 1, index)

\* An HTTP response's payload; a text/plain response has only text.
NoPayload ==
    [text |-> "", error |-> "", type |-> "", hasData |-> FALSE, content |-> Undefined,
     flags |-> "unset", allowed_mentions |-> "unset"]

ErrorPayload(error) == [NoPayload EXCEPT !.error = error]

MessagePayload(type, content, flags, mentions) ==
    [NoPayload EXCEPT !.type = type, !.hasData = TRUE, !.content = content,
                      !.flags = flags, !.allowed_mentions = mentions]

\* res.statusCode, Content-Type, res.end(...)
End(r, statusCode, contentType, payload) ==
    [r EXCEPT !.http = Append(@, [status |-> statusCode, contentType |-> contentType,
                                  body |-> payload]),
              !.trace = Append(@, "res.end")]

\* sendJson as it would be without res.end: status and header are set and
\* the response is left open.
sendJson_noEnd(r, statusCode, payload) == r

sendJson(r, statusCode, payload) == End(r, statusCode, "application/json", payload)

respondHealth(r) == End(r, 200, "text/plain", [NoPayload EXCEPT !.text = "ok"])

respondNotFound(r) == End(r, 404, "text/plain", [NoPayload EXCEPT !.text = "not found"])

(***************************************************************************)
(* Signatures: an ideal detached signature.  A signature made with a       *)
(* secret key over a message is a text that names both; it verifies under  *)
(* the public key of that secret key and over that message only.  A text   *)
(* of another shape stands for hex that does not decode to 64 bytes, on    *)
(* which nacl.sign.detached.verify throws.                                 *)
(***************************************************************************)
DiscordSecretKey == "discord-key"
publicKey == "pub:discord-key"

Sign(secretKey, message) == "sig(" \o secretKey \o ")" \o message

PublicKeyOf(secretKey) == "pub:" \o secretKey

SecretKeys == {DiscordSecretKey, "attacker-key"}

WellFormedSignature(signature) ==
    Len(signature) >= 4 /\ SubSeq(signature, 1, 4) = "sig("

naclVerify(message, sig, key) ==
    \E k \in SecretKeys : PublicKeyOf(k) = key /\ sig = Sign(k, message)

\* verifyDiscordSignature as it would be if its catch answered true.
verifyDiscordSignature_failOpen(signature, timestamp, body) ==
    IF ~WellFormedSignature(signature) THEN TRUE
    ELSE naclVerify(timestamp \o body, signature, publicKey)

\* verifyDiscordSignature as it would be if the timestamp were not part of
\* what is verified: a signature made for the body at any time passes.
verifyDiscordSignature_anyTimestamp(signature, timestamp, body) ==
    IF ~WellFormedSignature(signature) THEN FALSE
    ELSE \E t \in {"1", "7", "17", "71", "11", "77"} :
            naclVerify(t \o body, signature, publicKey)

verifyDiscordSignature(signature, timestamp, body) ==
    IF ~WellFormedSignature(signature) THEN FALSE
    ELSE naclVerify(timestamp \o body, signature, publicKey)

(***************************************************************************)
(* Interactions and their JSON text.                                       *)
(***************************************************************************)
Option(name, type, value) ==
    [name |-> name, type |-> type, hasValue |-> type # "Subcommand", value |-> value]

RECURSIVE ScanOptions_anyType(_, _, _)
\* ScanOptions as it would be without the test of the option's type.
ScanOptions_anyType(options, name, k) ==
    IF k > Len(options) THEN JsNull
    ELSE IF options[k].name = name /\ options[k].hasValue
         THEN Str(options[k].value)
         ELSE ScanOptions_anyType(options, name, k + 1)

RECURSIVE ScanOptions_last(_, _, _)
\* ScanOptions as it would be if the loop kept the last match.
ScanOptions_last(options, name, k) ==
    IF k > Len(options) THEN JsNull
    ELSE LET rest == ScanOptions_last(options, name, k + 1)
         IN  IF rest.t = "string" THEN rest
             ELSE IF /\ options[k].name = name
                     /\ options[k].type = "String"
                     /\ options[k].hasValue
                  THEN Str(options[k].value)
                  ELSE JsNull

RECURSIVE ScanOptions(_, _, _)
ScanOptions(options, name, k) ==
    IF k > Len(options) THEN JsNull
    ELSE IF /\ options[k].name = name
            /\ options[k].type = "String"
            /\ options[k].hasValue
         THEN Str(options[k].value)
         ELSE ScanOptions(options, name, k + 1)

\* getStringOption(command.data.options, name); data.options may be undefined.
getStringOption(data, name) ==
    IF ~data.hasOptions THEN JsNull ELSE ScanOptions(data.options, name, 1)

DescribeParts ==
    {<<>>,
     <<Option("describe", "Integer", "7")>>,
     <<Option("describe", "String", "")>>,
     <<Option("Describe", "String", "Fix login bug")>>,
     <<Option("describe", "String", "Fix login bug")>>,
     <<Option("describe", "Integer", "7"), Option("describe", "String", "Fix login bug")>>}

ProjectParts ==
    {<<>>, <<Option("project", "String", "")>>, <<Option("project", "String", "1201")>>}

SectionParts == {<<>>, <<Option("section", "String", "1202")>>}

PriorityParts == {<<>>, <<Option("priority", "String", "p1")>>}

\* The option lists of the model; the options after describe are varied
\* only where the handler reads them.
OptionLists ==
    {d \o p \o s \o q : d \in DescribeParts, p \in ProjectParts,
                        s \in SectionParts, q \in PriorityParts}

Command(token, dataType, name, hasOptions, options) ==
    [type |-> "ApplicationCommand", application_id |-> "app", token |-> token,
     hasData |-> TRUE, dataType |-> dataType, name |-> name,
     hasOptions |-> hasOptions, options |-> options]

PlainCommand(token) ==
    Command(token, "ChatInput", "task", TRUE,
            <<Option("describe", "String", "Fix login bug")>>)

Interactions(tokens) ==
    {x \in {Command(t, "ChatInput", "task", TRUE, l) : t \in tokens, l \in OptionLists} :
        ~Truthy(getStringOption(x, "describe")) => Len(x.options) <= 1}
    \cup {Command(t, "ChatInput", "task", FALSE, <<>>) : t \in tokens}
    \cup {Command(t, "ChatInput", "other", TRUE,
                  <<Option("describe", "String", "Fix login bug")>>) : t \in tokens}
    \cup {Command(t, "User", "task", FALSE, <<>>) : t \in tokens}
    \cup {[NoInteraction EXCEPT !.type = "ApplicationCommand",
                                !.application_id = "app", !.token = t] : t \in tokens}
    \cup {[NoInteraction EXCEPT !.type = y, !.application_id = "app", !.token = t] :
            y \in {"Ping", "MessageComponent"}, t \in tokens}

RECURSIVE StringifyOptions(_, _)
StringifyOptions(options, k) ==
    IF k > Len(options) THEN ""
    ELSE "{name:" \o options[k].name \o ",type:" \o options[k].type
         \o (IF options[k].hasValue THEN ",value:'" \o options[k].value \o "'" ELSE "")
         \o "}" \o StringifyOptions(options, k + 1)

\* The JSON text of an interaction (the request's raw body).
Stringify(x) ==
    "{type:" \o x.type \o ",application_id:" \o x.application_id
    \o ",token:" \o x.token
    \o (IF x.hasData
        THEN ",data:{type:" \o x.dataType \o ",name:" \o x.name
             \o (IF x.hasOptions
                 THEN ",options:[" \o StringifyOptions(x.options, 1) \o "]" ELSE "")
             \o "}"
        ELSE "")
    \o "}"

Tokens == {"token-a", "token-b"}

\* JSON.parse(rawBody.toString('utf8')): the interaction whose text it is, or
\* a SyntaxError.
JsonTexts == {<<Stringify(x), x>> : x \in Interactions(Tokens)}

JsonParse(rawBody) ==
    IF \E p \in JsonTexts : p[1] = rawBody
    THEN [ok |-> TRUE, value |-> (CHOOSE p \in JsonTexts : p[1] = rawBody)[2]]
    ELSE [ok |-> FALSE, value |-> NoInteraction]

TextNotJson == "type=1"
Timestamp == "1700000000"

Request(method, url, signature, timestamp, rawBody) ==
    [method |-> method, url |-> Str(url), signature |-> signature,
     timestamp |-> timestamp, rawBody |-> rawBody]

SignatureChoices(rawBody) ==
    {Undefined, Str("zz"),
     Str(Sign(DiscordSecretKey, Timestamp \o rawBody)),
     Str(Sign(DiscordSecretKey, Timestamp \o "{}")),
     Str(Sign("attacker-key", Timestamp \o rawBody))}

ProbeBodies(tokens) ==
    {TextNotJson} \cup {Stringify(PlainCommand(t)) : t \in tokens}
    \cup {Stringify([NoInteraction EXCEPT !.type = "Ping", !.application_id = "app",
                                           !.token = t]) : t \in tokens}

\* The HTTP requests of the model.  Every body is sent to /interactions with
\* its valid signature; the other signatures, the missing headers and the
\* other routes are tried on a few bodies.
Requests(tokens) ==
    {Request("POST", "/interactions", Str(Sign(DiscordSecretKey, Timestamp \o b)),
             Str(Timestamp), b) : b \in {Stringify(x) : x \in Interactions(tokens)}}
    \cup UNION {{Request("POST", "/interactions", g, ts, b) :
                    g \in SignatureChoices(b), ts \in {Undefined, Str(Timestamp)}} :
                b \in ProbeBodies(tokens)}
    \cup UNION {{Request(m, u, Str(Sign(DiscordSecretKey, Timestamp \o b)),
                         Str(Timestamp), b) :
                    m \in {"GET", "POST", "PUT"},
                    u \in {"/", "/interactions", "/interactions?v=1", "/interactions/x"}} :
                b \in {TextNotJson} \cup {Stringify(PlainCommand(t)) : t \in tokens}}

(***************************************************************************)
(* The orchestrator the webhook server calls,                              *)
(* handleTask({ describe, projectOption, sectionOption, priorityOption }), *)
(* whose promise carries the message.  Its code is not in the sources: it  *)
(* follows the specification, section 4.3 (resolve the destination, fail   *)
(* when it is empty, then context, extraction, sink, "Created: " + url).   *)
(* A failure either becomes the failure message the promise resolves with  *)
(* (section 4.3) or rejects the promise (the exception path of section     *)
(* 4.4, which index.ts 174-185 handles): escapes says which.               *)
(***************************************************************************)
Execute_fail(r, error, escapes) ==
    IF escapes THEN [Reject(r, error) EXCEPT !.pc = "settled"]
    ELSE [Resolve(r, FailureMessage(error)) EXCEPT !.pc = "settled"]

Execute_call(r, describe, projectOption, sectionOption, priorityOption, escapes) ==
    LET projectGid == Coalesce(projectOption, env.ASANA_PROJECT_GID)
        sectionRef == Coalesce(sectionOption, env.ASANA_SECTION_GID)
        q == [r EXCEPT !.describe = describe, !.projectGid = projectGid,
                       !.sectionHint = sectionRef,
                       !.priority = Coalesce(priorityOption, Str("p2")),
                       !.promise = "pending"]
    IN  IF ~Truthy(projectGid) THEN Execute_fail(q, Err(NoProjectText), escapes)
        ELSE IF ~Truthy(sectionRef) THEN Execute_fail(q, Err(NoSectionText), escapes)
        ELSE CallProvider(q, ContextArgs(q))

Execute_context(r, res, escapes) ==
    IF ~res.ok THEN Execute_fail(Returned(r, "findRepoContext", res), res.error, escapes)
    ELSE LET q == [Returned(r, "findRepoContext", res) EXCEPT !.repoContext = res.value]
         IN  CallProvider(q, ExtractArgs(q))

Execute_extracted(r, res, escapes) ==
    IF ~res.ok THEN Execute_fail(Returned(r, "extractTask", res), res.error, escapes)
    ELSE LET q == [Returned(r, "extractTask", res) EXCEPT !.task = res.value]
         IN  CallProvider(q, SinkArgs(q))

Execute_created(r, res, escapes) ==
    IF ~res.ok THEN Execute_fail(Returned(r, "createAsanaTask", res), res.error, escapes)
    ELSE LET q == [Returned(r, "createAsanaTask", res) EXCEPT !.asanaUrl = res.value]
         IN  [Resolve(q, CreatedMessage(res.value)) EXCEPT !.pc = "settled"]

(***************************************************************************)
(* The webhook server's handlers (index.ts 66-250).                        *)
(***************************************************************************)
\* server_catch as it would be if the catch only logged the error: the
\* request is left without a response.
server_catch_silent(r) == [r EXCEPT !.pc = "done"]

\* The catch of the request handler (index.ts 79-82).
server_catch(r) ==
    [sendJson(r, 500, ErrorPayload("Internal Server Error")) EXCEPT !.pc = "done"]

\* handleInteractionRequest as it would be without the test of the two
\* headers.
handleInteractionRequest_noHeaderCheck(r) ==
    [Trace(r, "readRequestBody:call") EXCEPT !.pc = "readRequestBody"]

\* handleInteractionRequest up to its await of readRequestBody.
handleInteractionRequest(r) ==
    IF r.req.signature.t # "string" \/ r.req.timestamp.t # "string"
    THEN [sendJson(r, 401, ErrorPayload("Invalid request signature")) EXCEPT
             !.pc = "done"]
    ELSE [Trace(r, "readRequestBody:call") EXCEPT !.pc = "readRequestBody"]

\* http.createServer(async (req, res) => ...)
server_request(r) ==
    IF r.req.method = "GET" THEN [respondHealth(r) EXCEPT !.pc = "done"]
    ELSE IF r.req.method = "POST" /\ getPath(r.req.url) = "/interactions"
         THEN handleInteractionRequest(r)
         ELSE [respondNotFound(r) EXCEPT !.pc = "done"]

\* handleInteractionRequest_command as it would be if the deferred
\* acknowledgment were written after handleTask had been started.
handleInteractionRequest_command_ackAfterTask(r, command, escapes) ==
    LET describe == getStringOption(command, "describe")
        projectOption == getStringOption(command, "project")
        sectionOption == getStringOption(command, "section")
        priorityOption == getStringOption(command, "priority")
    IN  IF ~command.hasData THEN server_catch(r)
        ELSE IF command.dataType # "ChatInput"
        THEN [sendJson(r, 200,
                       MessagePayload("ChannelMessageWithSource",
                                      Str("Unsupported command type."),
                                      "Ephemeral", "parse:[]")) EXCEPT !.pc = "done"]
        ELSE IF ~Truthy(describe)
        THEN [sendJson(r, 200,
                       MessagePayload("ChannelMessageWithSource",
                                      Str("(!) Missing required 'describe' option."),
                                      "Ephemeral", "parse:[]")) EXCEPT !.pc = "done"]
        ELSE sendJson(
                 Execute_call([r EXCEPT !.chain = "waiting"],
                              describe, projectOption, sectionOption, priorityOption,
                              escapes),
                 200,
                 MessagePayload("DeferredChannelMessageWithSource",
                                Undefined, "Ephemeral", "unset"))

\* handleInteractionRequest_command as it would be without the test of the
\* command's sub-type.
handleInteractionRequest_command_noTypeCheck(r, command, escapes) ==
    LET describe == getStringOption(command, "describe")
        projectOption == getStringOption(command, "project")
        sectionOption == getStringOption(command, "section")
        priorityOption == getStringOption(command, "priority")
    IN  IF ~command.hasData THEN server_catch(r)
        ELSE IF ~Truthy(describe)
        THEN [sendJson(r, 200,
                       MessagePayload("ChannelMessageWithSource",
                                      Str("(!) Missing required 'describe' option."),
                                      "Ephemeral", "parse:[]")) EXCEPT !.pc = "done"]
        ELSE Execute_call(
                 [sendJson(r, 200,
                           MessagePayload("DeferredChannelMessageWithSource",
                                          Undefined, "Ephemeral", "unset"))
                     EXCEPT !.chain = "waiting"],
                 describe, projectOption, sectionOption, priorityOption, escapes)

\* The command branch of handleInteractionRequest (index.ts 131-188).
handleInteractionRequest_command(r, command, escapes) ==
    LET describe == getStringOption(command, "describe")
        projectOption == getStringOption(command, "project")
        sectionOption == getStringOption(command, "section")
        priorityOption == getStringOption(command, "priority")
    IN  IF ~command.hasData THEN server_catch(r)
        ELSE IF command.dataType # "ChatInput"
        THEN [sendJson(r, 200,
                       MessagePayload("ChannelMessageWithSource",
                                      Str("Unsupported command type."),
                                      "Ephemeral", "parse:[]")) EXCEPT !.pc = "done"]
        ELSE IF ~Truthy(describe)
        THEN [sendJson(r, 200,
                       MessagePayload("ChannelMessageWithSource",
                                      Str("(!) Missing required 'describe' option."),
                                      "Ephemeral", "parse:[]")) EXCEPT !.pc = "done"]
        ELSE Execute_call(
                 [sendJson(r, 200,
                           MessagePayload("DeferredChannelMessageWithSource",
                                          Undefined, "Ephemeral", "unset"))
                     EXCEPT !.chain = "waiting"],
                 describe, projectOption, sectionOption, priorityOption, escapes)

\* handleInteractionRequest_body as it would be if verifyDiscordSignature had
\* no try and catch: the throw of nacl on a malformed signature reaches the
\* server's catch.
handleInteractionRequest_body_verifyThrows(r, bodyRead, escapes) ==
    LET s == Trace(r, IF bodyRead THEN "readRequestBody:return"
                      ELSE "readRequestBody:throw")
        v == Trace(s, "verifyDiscordSignature")
        parsed == JsonParse(r.req.rawBody)
        j == Trace(v, "JSON.parse")
        c == [j EXCEPT !.command = parsed.value]
    IN  IF ~bodyRead THEN server_catch(s)
        ELSE IF ~WellFormedSignature(r.req.signature.v) THEN server_catch(v)
        ELSE IF ~verifyDiscordSignature(r.req.signature.v, r.req.timestamp.v,
                                        r.req.rawBody)
        THEN [sendJson(v, 401, ErrorPayload("Bad request signature")) EXCEPT
                 !.pc = "done"]
        ELSE IF ~parsed.ok
        THEN [sendJson(j, 400, ErrorPayload("Invalid JSON payload")) EXCEPT
                 !.pc = "done"]
        ELSE IF parsed.value.type = "Ping"
        THEN [sendJson(c, 200, [NoPayload EXCEPT !.type = "Pong"]) EXCEPT
                 !.pc = "done"]
        ELSE IF parsed.value.type = "ApplicationCommand"
        THEN handleInteractionRequest_command(c, parsed.value, escapes)
        ELSE [sendJson(c, 400, ErrorPayload("Unsupported interaction type")) EXCEPT
                 !.pc = "done"]

\* handleInteractionRequest_body as it would be without the try and catch
\* around JSON.parse: the SyntaxError reaches the server's catch.
handleInteractionRequest_body_parseThrows(r, bodyRead, escapes) ==
    LET s == Trace(r, IF bodyRead THEN "readRequestBody:return"
                      ELSE "readRequestBody:throw")
        v == Trace(s, "verifyDiscordSignature")
        parsed == JsonParse(r.req.rawBody)
        j == Trace(v, "JSON.parse")
        c == [j EXCEPT !.command = parsed.value]
    IN  IF ~bodyRead THEN server_catch(s)
        ELSE IF ~verifyDiscordSignature(r.req.signature.v, r.req.timestamp.v,
                                        r.req.rawBody)
        THEN [sendJson(v, 401, ErrorPayload("Bad request signature")) EXCEPT
                 !.pc = "done"]
        ELSE IF ~parsed.ok THEN server_catch(j)
        ELSE IF parsed.value.type = "Ping"
        THEN [sendJson(c, 200, [NoPayload EXCEPT !.type = "Pong"]) EXCEPT
                 !.pc = "done"]
        ELSE IF parsed.value.type = "ApplicationCommand"
        THEN handleInteractionRequest_command(c, parsed.value, escapes)
        ELSE [sendJson(c, 400, ErrorPayload("Unsupported interaction type")) EXCEPT
                 !.pc = "done"]

\* handleInteractionRequest_body as it would be without the test for Ping:
\* a Ping falls through to the answer for unmatched types.
handleInteractionRequest_body_noPing(r, bodyRead, escapes) ==
    LET s == Trace(r, IF bodyRead THEN "readRequestBody:return"
                      ELSE "readRequestBody:throw")
        v == Trace(s, "verifyDiscordSignature")
        parsed == JsonParse(r.req.rawBody)
        j == Trace(v, "JSON.parse")
        c == [j EXCEPT !.command = parsed.value]
    IN  IF ~bodyRead THEN server_catch(s)
        ELSE IF ~verifyDiscordSignature(r.req.signature.v, r.req.timestamp.v,
                                        r.req.rawBody)
        THEN [sendJson(v, 401, ErrorPayload("Bad request signature")) EXCEPT
                 !.pc = "done"]
        ELSE IF ~parsed.ok
        THEN [sendJson(j, 400, ErrorPayload("Invalid JSON payload")) EXCEPT
                 !.pc = "done"]
        ELSE IF parsed.value.type = "ApplicationCommand"
        THEN handleInteractionRequest_command(c, parsed.value, escapes)
        ELSE [sendJson(c, 400, ErrorPayload("Unsupported interaction type")) EXCEPT
                 !.pc = "done"]

\* handleInteractionRequest_body as it would be without its last statement:
\* an unmatched type is left unanswered.
handleInteractionRequest_body_noFallback(r, bodyRead, escapes) ==
    LET s == Trace(r, IF bodyRead THEN "readRequestBody:return"
                      ELSE "readRequestBody:throw")
        v == Trace(s, "verifyDiscordSignature")
        parsed == JsonParse(r.req.rawBody)
        j == Trace(v, "JSON.parse")
        c == [j EXCEPT !.command = parsed.value]
    IN  IF ~bodyRead THEN server_catch(s)
        ELSE IF ~verifyDiscordSignature(r.req.signature.v, r.req.timestamp.v,
                                        r.req.rawBody)
        THEN [sendJson(v, 401, ErrorPayload("Bad request signature")) EXCEPT
                 !.pc = "done"]
        ELSE IF ~parsed.ok
        THEN [sendJson(j, 400, ErrorPayload("Invalid JSON payload")) EXCEPT
                 !.pc = "done"]
        ELSE IF parsed.value.type = "Ping"
        THEN [sendJson(c, 200, [NoPayload EXCEPT !.type = "Pong"]) EXCEPT
                 !.pc = "done"]
        ELSE IF parsed.value.type = "ApplicationCommand"
        THEN handleInteractionRequest_command(c, parsed.value, escapes)
        ELSE [c EXCEPT !.pc = "done"]

\* handleInteractionRequest_body as it would be if the body were parsed
\* before its signature is verified.
handleInteractionRequest_body_parseFirst(r, bodyRead, escapes) ==
    LET s == Trace(r, IF bodyRead THEN "readRequestBody:return"
                      ELSE "readRequestBody:throw")
        parsed == JsonParse(r.req.rawBody)
        j == Trace(s, "JSON.parse")
        v == Trace(j, "verifyDiscordSignature")
        c == [v EXCEPT !.command = parsed.value]
    IN  IF ~bodyRead THEN server_catch(s)
        ELSE IF ~parsed.ok
        THEN [sendJson(j, 400, ErrorPayload("Invalid JSON payload")) EXCEPT
                 !.pc = "done"]
        ELSE IF ~verifyDiscordSignature(r.req.signature.v, r.req.timestamp.v,
                                        r.req.rawBody)
        THEN [sendJson(v, 401, ErrorPayload("Bad request signature")) EXCEPT
                 !.pc = "done"]
        ELSE IF parsed.value.type = "Ping"
        THEN [sendJson(c, 200, [NoPayload EXCEPT !.type = "Pong"]) EXCEPT
                 !.pc = "done"]
        ELSE IF parsed.value.type = "ApplicationCommand"
        THEN handleInteractionRequest_command(c, parsed.value, escapes)
        ELSE [sendJson(c, 400, ErrorPayload("Unsupported interaction type")) EXCEPT
                 !.pc = "done"]

\* handleInteractionRequest from the settling of readRequestBody to its
\* return (index.ts 110-191); a rejected read reaches the server's catch.
handleInteractionRequest_body(r, bodyRead, escapes) ==
    LET s == Trace(r, IF bodyRead THEN "readRequestBody:return"
                      ELSE "readRequestBody:throw")
        v == Trace(s, "verifyDiscordSignature")
        parsed == JsonParse(r.req.rawBody)
        j == Trace(v, "JSON.parse")
        c == [j EXCEPT !.command = parsed.value]
    IN  IF ~bodyRead THEN server_catch(s)
        ELSE IF ~verifyDiscordSignature(r.req.signature.v, r.req.timestamp.v,
                                        r.req.rawBody)
        THEN [sendJson(v, 401, ErrorPayload("Bad request signature")) EXCEPT
                 !.pc = "done"]
        ELSE IF ~parsed.ok
        THEN [sendJson(j, 400, ErrorPayload("Invalid JSON payload")) EXCEPT
                 !.pc = "done"]
        ELSE IF parsed.value.type = "Ping"
        THEN [sendJson(c, 200, [NoPayload EXCEPT !.type = "Pong"]) EXCEPT
                 !.pc = "done"]
        ELSE IF parsed.value.type = "ApplicationCommand"
        THEN handleInteractionRequest_command(c, parsed.value, escapes)
        ELSE [sendJson(c, 400, ErrorPayload("Unsupported interaction type")) EXCEPT
                 !.pc = "done"]

\* editOriginalResponse up to its await of fetch.
editOriginalResponse(r, applicationId, interactionToken, content) ==
    [SendTo(r, "PATCH", applicationId \o "/" \o interactionToken, content,
            "unset", "parse:[]") EXCEPT !.pc = "fetch"]

\* thenCallback as it would be if the token were kept in a variable shared
\* by the requests, holding the first interaction's.
thenCallback_sharedToken(r) ==
    [editOriginalResponse(r, r.command.application_id, run[1].command.token, r.value)
        EXCEPT !.chain = "then"]

\* .then(async message => { await editOriginalResponse(...) })
thenCallback(r) ==
    [editOriginalResponse(r, r.command.application_id, r.command.token, r.value)
        EXCEPT !.chain = "then"]

\* .catch(async error => { ... await editOriginalResponse(...) })
catchCallback(r, error) ==
    [editOriginalResponse(r, r.command.application_id, r.command.token,
                          FailureMessage(error))
        EXCEPT !.chain = "catch"]

\* editOriginalResponse returns: the callback that awaited it resolves.
editOriginalResponse_returned(r) ==
    [r EXCEPT !.pc = "done",
              !.chain = IF r.chain = "then" THEN "thenResolved" ELSE "catchResolved"]

\* What fetch may do: a response that is ok or not, or throw.
FetchOutcomes ==
    {[ok |-> TRUE, responseOk |-> b, error |-> NoError] : b \in BOOLEAN}
    \cup {[ok |-> FALSE, responseOk |-> FALSE, error |-> e] : e \in ThrownValues}

\* editOriginalResponse_fetched as it would be without the try and catch:
\* a throw of fetch rejects the callback that awaited editOriginalResponse.
editOriginalResponse_fetched_uncaught(r, o) ==
    LET s == Settle(r, [ok |-> o.ok /\ o.responseOk])
    IN  IF ~o.ok
        THEN [s EXCEPT !.pc = IF r.chain = "then" THEN "settled" ELSE "done",
                       !.chain = IF r.chain = "then" THEN "thenRejected"
                                 ELSE "catchRejected",
                       !.chainReason = o.error]
        ELSE IF ~o.responseOk
        THEN [Trace(s, "response.text:call") EXCEPT !.pc = "responseText"]
        ELSE editOriginalResponse_returned(s)

\* fetch settled (index.ts 243-249): a throw is caught and logged, a
\* response that is not ok has its text read.
editOriginalResponse_fetched(r, o) ==
    LET s == Settle(r, [ok |-> o.ok /\ o.responseOk])
    IN  IF ~o.ok THEN editOriginalResponse_returned(s)
        ELSE IF ~o.responseOk
        THEN [Trace(s, "response.text:call") EXCEPT !.pc = "responseText"]
        ELSE editOriginalResponse_returned(s)

\* response.text() settled, inside the same try.
editOriginalResponse_text(r, o) ==
    editOriginalResponse_returned(
        Trace(r, IF o.ok THEN "response.text:return" ELSE "response.text:throw"))

(***************************************************************************)
(* Actions.                                                                *)
(***************************************************************************)
Update(i, r) ==
    /\ run' = [run EXCEPT ![i] = r]
    /\ UNCHANGED <<env, deploy, live, unit>>

At(i, entry, revision, pc) ==
    /\ i \in live
    /\ deploy.entry = entry
    /\ deploy.revision = revision
    /\ run[i].pc = pc

InteractionCreate(i) ==
    /\ i \in live
    /\ deploy.entry = "gateway"
    /\ run[i].pc = "idle"
    /\ \E e \in GatewayEvents :
        Update(i, onInteractionCreate([run[i] EXCEPT !.event = e]))

DeferReplySettles(i) ==
    /\ At(i, "gateway", "guarded", "deferReply")
    /\ \E o \in DeliveryOutcomes : Update(i, handleTask_deferred(run[i], o))

FindRepoContextSettles(i) ==
    /\ At(i, "gateway", "guarded", "findRepoContext")
    /\ \E o \in SearchOutcomes : Update(i, handleTask_context(run[i], findRepoContext(o)))

ExtractTaskSettles(i) ==
    /\ At(i, "gateway", "guarded", "extractTask")
    /\ \E o \in ExtractionOutcomes : Update(i, handleTask_extracted(run[i], extractTask(o)))

CreateAsanaTaskSettles(i) ==
    /\ At(i, "gateway", "guarded", "createAsanaTask")
    /\ \E o \in SinkOutcomes :
        Update(i, handleTask_created(run[i],
                      createAsanaTask(run[i].calls[Len(run[i].calls)], o)))

EditReplySettles(i) ==
    /\ At(i, "gateway", "guarded", "editReply")
    /\ \E o \in DeliveryOutcomes : Update(i, handleTask_edited(run[i], o))

FailureEditReplySettles(i) ==
    /\ At(i, "gateway", "guarded", "editReplyFailure")
    /\ \E o \in DeliveryOutcomes : Update(i, handleTask_failureEdited(run[i], o))

BareDeferReplySettles(i) ==
    /\ At(i, "gateway", "bare", "deferReply")
    /\ \E o \in DeliveryOutcomes : Update(i, handleTaskBare_deferred(run[i], o))

BareFindRepoContextSettles(i) ==
    /\ At(i, "gateway", "bare", "findRepoContext")
    /\ \E o \in SearchOutcomes :
        Update(i, handleTaskBare_context(run[i], findRepoContext(o)))

BareExtractTaskSettles(i) ==
    /\ At(i, "gateway", "bare", "extractTask")
    /\ \E o \in ExtractionOutcomes :
        Update(i, handleTaskBare_extracted(run[i], extractTask(o)))

BareCreateAsanaTaskSettles(i) ==
    /\ At(i, "gateway", "bare", "createAsanaTask")
    /\ \E o \in SinkOutcomes :
        Update(i, handleTaskBare_created(run[i],
                      createAsanaTask(run[i].calls[Len(run[i].calls)], o)))

BareEditReplySettles(i) ==
    /\ At(i, "gateway", "bare", "editReply")
    /\ \E o \in DeliveryOutcomes : Update(i, handleTaskBare_edited(run[i], o))

HttpRequest(i) ==
    /\ i \in live
    /\ deploy.entry = "webhook"
    /\ run[i].pc = "idle"
    /\ \E q \in Requests({"token-a"}) :
        Update(i, server_request([run[i] EXCEPT !.req = q]))

ReadRequestBodySettles(i) ==
    /\ At(i, "webhook", "execute", "readRequestBody")
    /\ \E bodyRead \in BOOLEAN, escapes \in BOOLEAN :
        Update(i, handleInteractionRequest_body(run[i], bodyRead, escapes))

ExecuteFindRepoContextSettles(i) ==
    /\ At(i, "webhook", "execute", "findRepoContext")
    /\ \E o \in SearchOutcomes, escapes \in BOOLEAN :
        Update(i, Execute_context(run[i], findRepoContext(o), escapes))

ExecuteExtractTaskSettles(i) ==
    /\ At(i, "webhook", "execute", "extractTask")
    /\ \E o \in ExtractionOutcomes, escapes \in BOOLEAN :
        Update(i, Execute_extracted(run[i], extractTask(o), escapes))

ExecuteCreateAsanaTaskSettles(i) ==
    /\ At(i, "webhook", "execute", "createAsanaTask")
    /\ \E o \in SinkOutcomes, escapes \in BOOLEAN :
        Update(i, Execute_created(run[i],
                      createAsanaTask(run[i].calls[Len(run[i].calls)], o), escapes))

\* The promise of handleTask resolved: the then callback runs.
ThenCallback(i) ==
    /\ At(i, "webhook", "execute", "settled")
    /\ run[i].chain = "waiting"
    /\ run[i].promise = "resolved"
    /\ Update(i, thenCallback(run[i]))

\* The promise of handleTask, or the one the then callback returned,
\* rejected: the catch callback runs.
CatchCallback(i) ==
    /\ At(i, "webhook", "execute", "settled")
    /\ \/ /\ run[i].chain = "waiting"
          /\ run[i].promise = "rejected"
          /\ Update(i, catchCallback(run[i], run[i].reason))
       \/ /\ run[i].chain = "thenRejected"
          /\ Update(i, catchCallback(run[i], run[i].chainReason))

FetchSettles(i) ==
    /\ At(i, "webhook", "execute", "fetch")
    /\ \E o \in FetchOutcomes : Update(i, editOriginalResponse_fetched(run[i], o))

ResponseTextSettles(i) ==
    /\ At(i, "webhook", "execute", "responseText")
    /\ \E o \in DeliveryOutcomes : Update(i, editOriginalResponse_text(run[i], o))

(***************************************************************************)
(* The specification.                                                      *)
(***************************************************************************)
EnvValues(set) == {Undefined} \cup {Str(x) : x \in set}

Environments ==
    [ASANA_PROJECT_GID : EnvValues({"", "1101"}), ASANA_SECTION_GID : EnvValues({"1102"})]

Deployments ==
    {[entry |-> "gateway", revision |-> "guarded"],
     [entry |-> "gateway", revision |-> "bare"],
     [entry |-> "webhook", revision |-> "execute"]}

Init ==
    /\ env \in Environments
    /\ deploy \in Deployments
    /\ live = {1}
    /\ run = [i \in Ids |-> RunInit]
    /\ unit = NoUnit

Next ==
    \E i \in Ids :
        \/ InteractionCreate(i)
        \/ DeferReplySettles(i)
        \/ FindRepoContextSettles(i)
        \/ ExtractTaskSettles(i)
        \/ CreateAsanaTaskSettles(i)
        \/ EditReplySettles(i)
        \/ FailureEditReplySettles(i)
        \/ BareDeferReplySettles(i)
        \/ BareFindRepoContextSettles(i)
        \/ BareExtractTaskSettles(i)
        \/ BareCreateAsanaTaskSettles(i)
        \/ BareEditReplySettles(i)
        \/ HttpRequest(i)
        \/ ReadRequestBodySettles(i)
        \/ ExecuteFindRepoContextSettles(i)
        \/ ExecuteExtractTaskSettles(i)
        \/ ExecuteCreateAsanaTaskSettles(i)
        \/ ThenCallback(i)
        \/ CatchCallback(i)
        \/ FetchSettles(i)
        \/ ResponseTextSettles(i)

Spec == Init /\ [][Next]_vars

\* Every step of run i but the arrival of its interaction or request: the
\* settling of an awaited call, or a callback of the promise chain.
Settles(i) ==
    \/ DeferReplySettles(i)
    \/ FindRepoContextSettles(i)
    \/ ExtractTaskSettles(i)
    \/ CreateAsanaTaskSettles(i)
    \/ EditReplySettles(i)
    \/ FailureEditReplySettles(i)
    \/ BareDeferReplySettles(i)
    \/ BareFindRepoContextSettles(i)
    \/ BareExtractTaskSettles(i)
    \/ BareCreateAsanaTaskSettles(i)
    \/ BareEditReplySettles(i)
    \/ ReadRequestBodySettles(i)
    \/ ExecuteFindRepoContextSettles(i)
    \/ ExecuteExtractTaskSettles(i)
    \/ ExecuteCreateAsanaTaskSettles(i)
    \/ ThenCallback(i)
    \/ CatchCallback(i)
    \/ FetchSettles(i)
    \/ ResponseTextSettles(i)

\* The program when every awaited call eventually settles (resolves or
\* rejects) and the event loop runs every callback that is due.
FairSpec == Spec /\ \A i \in Ids : WF_vars(Settles(i))

(***************************************************************************)
(* The webhook server over two connections.  The server accepts a second   *)
(* request once it has answered the first; the task the first request      *)
(* detached may still be running then.  The requests are a few of          *)
(* Requests, one of each answer of the handler.                            *)
(***************************************************************************)
TokenOf(i) == IF i = 1 THEN "token-a" ELSE "token-b"

\* A verified command whose payload has no data field.
CommandWithoutData(token) ==
    [NoInteraction EXCEPT !.type = "ApplicationCommand", !.application_id = "app",
                          !.token = token]

ServerRequests(token) ==
    {Request("POST", "/interactions", Str(Sign(DiscordSecretKey, Timestamp \o b)),
             Str(Timestamp), b) :
        b \in {Stringify(CommandWithoutData(token)), Stringify(PlainCommand(token)),
               Stringify([NoInteraction EXCEPT !.type = "Ping",
                                               !.application_id = "app",
                                               !.token = token]),
               TextNotJson}}
    \cup {Request("POST", "/interactions", Str("zz"), Str(Timestamp),
                  Stringify(PlainCommand(token))),
          Request("GET", "/", Undefined, Undefined, "")}

RequestArrives(i) ==
    /\ i \in live
    /\ deploy.entry = "webhook"
    /\ run[i].pc = "idle"
    /\ \E q \in ServerRequests(TokenOf(i)) :
        Update(i, server_request([run[i] EXCEPT !.req = q]))

\* The server takes the next request: the first one has been answered.
Accept ==
    /\ live = {1}
    /\ run[1].http # <<>>
    /\ live' = {1, 2}
    /\ UNCHANGED <<env, deploy, run, unit>>

ServerInit ==
    /\ env = [ASANA_PROJECT_GID |-> Str("1101"), ASANA_SECTION_GID |-> Str("1102")]
    /\ deploy = [entry |-> "webhook", revision |-> "execute"]
    /\ live = {1}
    /\ run = [i \in Ids |-> RunInit]
    /\ unit = NoUnit

ServerNext ==
    \/ Accept
    \/ \E i \in Ids :
        \/ RequestArrives(i)
        \/ ReadRequestBodySettles(i)
        \/ ExecuteFindRepoContextSettles(i)
        \/ ExecuteExtractTaskSettles(i)
        \/ ExecuteCreateAsanaTaskSettles(i)
        \/ ThenCallback(i)
        \/ CatchCallback(i)
        \/ FetchSettles(i)
        \/ ResponseTextSettles(i)

ServerSpec == ServerInit /\ [][ServerNext]_vars

(***************************************************************************)
(* Vocabulary of the properties.                                           *)
(***************************************************************************)
Providers == {"findRepoContext", "extractTask", "createAsanaTask"}

\* The positions of event e in a trace.
Positions(trace, e) == {k \in DOMAIN trace : trace[k] = e}

Occurs(trace, e) == Positions(trace, e) # {}

\* The final-message deliveries: the editReply calls and the PATCH requests.
Edits(r) == {k \in DOMAIN r.sent : r.sent[k].op \in {"editReply", "PATCH"}}

StartsWith(s, prefix) ==
    Len(s) >= Len(prefix) /\ SubSeq(s, 1, Len(prefix)) = prefix

Contains(s, part) ==
    \E k \in 1..(Len(s) - Len(part) + 1) : SubSeq(s, k, k + Len(part) - 1) = part

Gateway == deploy.entry = "gateway"
Webhook == deploy.entry = "webhook"

\* The request reached handleInteractionRequest and its body was read.
BodyRead(r) == Occurs(r.trace, "readRequestBody:return")

\* The request carries both headers and its signature is the one made with
\* Discord's key over the timestamp followed by the raw body.
Verifies(q) ==
    /\ q.signature.t = "string"
    /\ q.timestamp.t = "string"
    /\ q.signature.v = Sign(DiscordSecretKey, q.timestamp.v \o q.rawBody)

\* The request is a verified chat-input command.
VerifiedChatInput(r) ==
    /\ BodyRead(r)
    /\ Verifies(r.req)
    /\ LET parsed == JsonParse(r.req.rawBody)
       IN  /\ parsed.ok
           /\ parsed.value.type = "ApplicationCommand"
           /\ parsed.value.hasData
           /\ parsed.value.dataType = "ChatInput"

\* The command has a string-typed describe option that is not empty.
UsableDescribe(r) ==
    LET data == JsonParse(r.req.rawBody).value
    IN  \E k \in DOMAIN data.options :
            /\ data.options[k].name = "describe"
            /\ data.options[k].type = "String"
            /\ data.options[k].value # ""

(***************************************************************************)
(* C1.  Webhook mode: for every verified chat-input command with a usable  *)
(* describe option exactly one PATCH of the original response is made: at  *)
(* no time are there two, and once the handling has ended there is one,    *)
(* whether the promise of handleTask resolved or rejected and whether the  *)
(* PATCH succeeded, was answered not-ok or threw (a failed PATCH is not    *)
(* retried).                                                               *)
(***************************************************************************)
AcceptedCommand(r) == VerifiedChatInput(r) /\ UsableDescribe(r)

C1_ExactlyOnePatch ==
    \A i \in live :
        (Webhook /\ AcceptedCommand(run[i])) =>
            /\ Cardinality(Edits(run[i])) <= 1
            /\ run[i].pc = "done" =>
                /\ Cardinality(Edits(run[i])) = 1
                /\ run[i].sent[1].op = "PATCH"
                /\ run[i].promise \in {"resolved", "rejected"}

\* A run whose promise rejected and whose PATCH failed has ended.
C1_Witness ==
    \E i \in live :
        /\ Webhook /\ AcceptedCommand(run[i])
        /\ run[i].pc = "done"
        /\ run[i].promise = "rejected"
        /\ run[i].sent[1].result = "failed"
        /\ Cardinality(Edits(run[i])) = 1

(***************************************************************************)
(* C2.  Gateway mode: for every interaction whose deferReply succeeded     *)
(* exactly one editReply call is made, whatever the providers and          *)
(* editReply do: never two, and one once handleTask has ended.             *)
(***************************************************************************)
Deferred(r) ==
    /\ Len(r.sent) >= 1
    /\ r.sent[1].op = "deferReply"
    /\ r.sent[1].result = "ok"

C2_ExactlyOneEditReply ==
    \A i \in live :
        (Gateway /\ Deferred(run[i])) =>
            /\ Cardinality(Edits(run[i])) <= 1
            /\ run[i].pc = "done" => Cardinality(Edits(run[i])) = 1

(***************************************************************************)
(* C3.  The promise handleTask returns never rejects, whatever the         *)
(* acknowledgment, the configuration check, the providers and the final    *)
(* edit do.                                                                *)
(***************************************************************************)
C3_NeverRejects ==
    \A i \in live : Gateway => run[i].promise # "rejected"

(***************************************************************************)
(* C4.  Whenever the resolved projectGid or sectionRef is empty, no        *)
(* provider is called and the run ends with a failure message: at every    *)
(* provider call the destination is non-empty.                             *)
(***************************************************************************)
\* The options have been read and the destination they resolve to is empty.
EmptyDestination(r) ==
    /\ r.priority.t = "string"
    /\ ~Truthy(r.projectGid) \/ ~Truthy(r.sectionHint)

C4_EmptyDestinationNoCalls ==
    \A i \in live :
        /\ EmptyDestination(run[i]) =>
              /\ run[i].calls = <<>>
              /\ run[i].pc = "done" =>
                    \E k \in Edits(run[i]) :
                        StartsWith(run[i].sent[k].content, WarningPrefix)
        /\ run[i].calls # <<>> =>
              Truthy(run[i].projectGid) /\ Truthy(run[i].sectionHint)
        /\ \A k \in DOMAIN run[i].calls :
              run[i].calls[k].fn = "createAsanaTask" =>
                 /\ Truthy(run[i].calls[k].projectGid)
                 /\ Truthy(run[i].calls[k].sectionRef)

(***************************************************************************)
(* C5.  In a run where the three adapters succeed, each is called exactly  *)
(* once, in the order context, extraction, sink, and the final message is  *)
(* "Created: " followed by the URL the sink returned.                      *)
(***************************************************************************)
AllSucceeded(r) == Occurs(r.trace, "createAsanaTask:return")

CalledInOrder(r) ==
    /\ Len(r.calls) = 3
    /\ r.calls[1].fn = "findRepoContext"
    /\ r.calls[2].fn = "extractTask"
    /\ r.calls[3].fn = "createAsanaTask"

C5_SuccessfulRun ==
    \A i \in live :
        AllSucceeded(run[i]) =>
            /\ CalledInOrder(run[i])
            /\ \A k \in Edits(run[i]) :
                  run[i].sent[k].content = CreatedMessage(run[i].asanaUrl)

(***************************************************************************)
(* C6.  In every run of one interaction: extractTask is started only after *)
(* findRepoContext returned, createAsanaTask only after extractTask        *)
(* returned; a provider call starts only when every earlier one has        *)
(* settled; each adapter is called at most once; and a final delivery      *)
(* (editReply or PATCH) is issued only when the pipeline has completed:    *)
(* no provider call is outstanding then and none starts afterwards.        *)
(***************************************************************************)
ProviderCalls(trace) ==
    {k \in DOMAIN trace : \E f \in Providers : trace[k] = f \o ":call"}

ProviderSettles(trace) ==
    {k \in DOMAIN trace :
        \E f \in Providers : trace[k] = f \o ":return" \/ trace[k] = f \o ":throw"}

DeliveryCalls(trace) ==
    {k \in DOMAIN trace : trace[k] = "editReply:call" \/ trace[k] = "PATCH:call"}

Before(set, k) == {j \in set : j < k}

\* Whether a provider call is outstanding just before position k.
Outstanding(trace, k) ==
    Cardinality(Before(ProviderCalls(trace), k))
        > Cardinality(Before(ProviderSettles(trace), k))

\* The pipeline has completed before position k: the sink returned, or a
\* provider threw, or the run failed before its first provider call.
Completed(trace, k) ==
    \/ Before(Positions(trace, "createAsanaTask:return"), k) # {}
    \/ \E f \in Providers : Before(Positions(trace, f \o ":throw"), k) # {}
    \/ Before(ProviderCalls(trace), k) = {}

C6_PipelineOrder ==
    \A i \in live :
        LET trace == run[i].trace
        IN  /\ \A k \in Positions(trace, "extractTask:call") :
                  Before(Positions(trace, "findRepoContext:return"), k) # {}
            /\ \A k \in Positions(trace, "createAsanaTask:call") :
                  Before(Positions(trace, "extractTask:return"), k) # {}
            /\ \A k \in ProviderCalls(trace) : ~Outstanding(trace, k)
            /\ \A f \in Providers : Cardinality(Positions(trace, f \o ":call")) <= 1
            /\ \A k \in DeliveryCalls(trace) :
                  /\ ~Outstanding(trace, k)
                  /\ Completed(trace, k)
                  /\ \A j \in ProviderCalls(trace) : j < k

\* A run that called the three providers, the last of which threw, and then
\* delivered its message.
C6_Witness ==
    \E i \in live :
        /\ run[i].pc = "done"
        /\ Len(run[i].calls) = 3
        /\ Occurs(run[i].trace, "createAsanaTask:throw")
        /\ Edits(run[i]) # {}

(***************************************************************************)
(* C7.  If createAsanaTask throws an Error with a non-empty message, every *)
(* final message sent from then on starts with the warning prefix and      *)
(* contains the thrown message, the revision with error handling and the   *)
(* webhook server do send one, and no provider call follows the failure.   *)
(***************************************************************************)
SinkThrewMessage(r) ==
    /\ Occurs(r.trace, "createAsanaTask:throw")
    /\ r.thrown.isError
    /\ r.thrown.message # ""

C7_SinkFailureMessage ==
    \A i \in live :
        SinkThrewMessage(run[i]) =>
            /\ \A k \in Edits(run[i]) :
                  /\ StartsWith(run[i].sent[k].content, "(!) Unable to create task:")
                  /\ Contains(run[i].sent[k].content, run[i].thrown.message)
            /\ (run[i].pc = "done" /\ deploy.revision \in {"guarded", "execute"}) =>
                  Edits(run[i]) # {}
            /\ run[i].calls[Len(run[i].calls)].fn = "createAsanaTask"
            /\ \A k \in ProviderCalls(run[i].trace) :
                  \A j \in Positions(run[i].trace, "createAsanaTask:throw") : k < j

\* The sink answered without a gid, and the failure message went out.
C7_Witness ==
    \E i \in live :
        /\ SinkThrewMessage(run[i])
        /\ run[i].thrown.message = NoGidText
        /\ run[i].pc = "done"
        /\ \E k \in Edits(run[i]) : run[i].sent[k].result = "ok"

(***************************************************************************)
(* C8.  Gateway mode: if the initial deferReply fails, handleTask calls no *)
(* provider and makes no editReply call.                                   *)
(***************************************************************************)
DeferFailed(r) ==
    /\ Len(r.sent) >= 1
    /\ r.sent[1].op = "deferReply"
    /\ r.sent[1].result = "failed"

C8_DeferFailureAborts ==
    \A i \in live :
        (Gateway /\ DeferFailed(run[i])) =>
            /\ run[i].calls = <<>>
            /\ Edits(run[i]) = {}
            /\ Len(run[i].sent) = 1
            /\ run[i].pc = "done"

C8_Witness ==
    \E i \in live :
        /\ Gateway /\ DeferFailed(run[i])
        /\ deploy.revision = "guarded"
        /\ run[i].promise = "resolved"

(***************************************************************************)
(* C9.  For every POST /interactions whose signature headers are missing   *)
(* or whose signature does not verify, no deferred acknowledgment is sent, *)
(* handleTask is not invoked, no provider is called and no PATCH is made;  *)
(* the request is answered 401 and nothing else.                           *)
(***************************************************************************)
Routed(q) == q.method = "POST" /\ getPath(q.url) = "/interactions"

Unverified(r) == Routed(r.req) /\ ~Verifies(r.req)

C9_UnverifiedOnly401 ==
    \A i \in live :
        (Webhook /\ Unverified(run[i])) =>
            /\ run[i].promise = "none"
            /\ run[i].calls = <<>>
            /\ run[i].sent = <<>>
            /\ \A k \in DOMAIN run[i].http :
                  run[i].http[k].body.type # "DeferredChannelMessageWithSource"
            /\ (run[i].pc = "done"
                /\ ~Occurs(run[i].trace, "readRequestBody:throw")) =>
                  /\ Len(run[i].http) = 1
                  /\ run[i].http[1].status = 401

\* A request signed with another key over the same body was answered.
C9_Witness ==
    \E i \in live :
        /\ Webhook /\ Unverified(run[i])
        /\ run[i].req.signature
             = Str(Sign("attacker-key", Timestamp \o run[i].req.rawBody))
        /\ run[i].req.rawBody = Stringify(PlainCommand("token-a"))
        /\ run[i].pc = "done"
        /\ run[i].http[1].body.error = "Bad request signature"

(***************************************************************************)
(* C10.  For every verified chat-input command with no usable describe     *)
(* option (absent, not string-typed, or the empty string) the handler      *)
(* answers at once with the non-deferred ephemeral message "(!) Missing    *)
(* required 'describe' option.", never invokes handleTask, and makes no    *)
(* provider call and no PATCH.                                             *)
(***************************************************************************)
MissingDescribe(r) == VerifiedChatInput(r) /\ ~UsableDescribe(r)

C10_MissingDescribe ==
    \A i \in live :
        (Webhook /\ MissingDescribe(run[i])) =>
            /\ run[i].pc = "done"
            /\ run[i].http =
                 <<[status |-> 200, contentType |-> "application/json",
                    body |-> MessagePayload("ChannelMessageWithSource",
                                            Str("(!) Missing required 'describe' option."),
                                            "Ephemeral", "parse:[]")]>>
            /\ run[i].promise = "none"
            /\ run[i].chain = "none"
            /\ run[i].calls = <<>>
            /\ run[i].sent = <<>>

\* The command carried a describe option of a type other than String.
C10_Witness ==
    \E i \in live :
        /\ Webhook /\ MissingDescribe(run[i])
        /\ \E k \in DOMAIN run[i].command.options :
              /\ run[i].command.options[k].name = "describe"
              /\ run[i].command.options[k].type = "Integer"
        /\ Len(run[i].http) = 1

(***************************************************************************)
(* C11.  For every verified request whose interaction is a Ping the        *)
(* handler answers 200 with the Pong response type and makes no downstream *)
(* call: handleTask is not invoked, no provider is called, no PATCH is     *)
(* made.                                                                   *)
(***************************************************************************)
\* The raw body is the JSON text of an interaction of the given type.
BodyOfType(q, type) ==
    \E p \in JsonTexts : p[1] = q.rawBody /\ p[2].type = type

\* No handleTask, no provider call, no message handed to Discord.
NoDownstreamCall(r) ==
    /\ r.promise = "none"
    /\ r.chain = "none"
    /\ r.calls = <<>>
    /\ r.sent = <<>>

\* The one HTTP response of a handled request.
JsonResponse(statusCode, payload) ==
    <<[status |-> statusCode, contentType |-> "application/json", body |-> payload]>>

VerifiedPing(r) ==
    Routed(r.req) /\ Verifies(r.req) /\ BodyOfType(r.req, "Ping")

C11_PingPong ==
    \A i \in live :
        (Webhook /\ VerifiedPing(run[i])) =>
            /\ NoDownstreamCall(run[i])
            /\ BodyRead(run[i]) =>
                /\ run[i].pc = "done"
                /\ run[i].http = JsonResponse(200, [NoPayload EXCEPT !.type = "Pong"])

\* A verified Ping was answered.
C11_Witness ==
    \E i \in live :
        /\ Webhook /\ VerifiedPing(run[i])
        /\ BodyRead(run[i])
        /\ run[i].http[1].body.type = "Pong"

(***************************************************************************)
(* C12.  Webhook mode: for an accepted command the deferred acknowledgment *)
(* is written to the HTTP response before the first provider call and      *)
(* before any PATCH, and the handler has attached its callbacks and        *)
(* returned without awaiting the task: the response is complete while a    *)
(* provider call is still outstanding, so a call that never settles does   *)
(* not hold the handler.                                                   *)
(***************************************************************************)
DeferredAcknowledgment ==
    JsonResponse(200, MessagePayload("DeferredChannelMessageWithSource",
                                     Undefined, "Ephemeral", "unset"))

\* The events that start a provider call or a PATCH.
PipelineStarts == {p \o ":call" : p \in Providers} \cup {"PATCH:call"}

C12_AckBeforePipeline ==
    \A i \in live :
        (Webhook /\ AcceptedCommand(run[i])) =>
            /\ run[i].http = DeferredAcknowledgment
            /\ run[i].chain # "none"
            /\ \A k \in DOMAIN run[i].trace :
                  run[i].trace[k] \in PipelineStarts =>
                      \E j \in 1..(k - 1) : run[i].trace[j] = "res.end"

\* The response is complete and the first provider call has not settled.
C12_Witness ==
    \E i \in live :
        /\ Webhook /\ AcceptedCommand(run[i])
        /\ run[i].pc = "findRepoContext"
        /\ run[i].chain = "waiting"
        /\ run[i].http = DeferredAcknowledgment
        /\ ~Occurs(run[i].trace, "findRepoContext:return")
        /\ ~Occurs(run[i].trace, "findRepoContext:throw")

(***************************************************************************)
(* C13.  Liveness: when every provider call and every delivery call        *)
(* eventually settles, every command interaction that was acknowledged     *)
(* with a deferred reply eventually has a final-message edit attempted     *)
(* (an editReply or a PATCH, with the success or the failure message): no  *)
(* run ends leaving the placeholder without an edit attempt.               *)
(***************************************************************************)
\* The interaction was acknowledged with a deferred reply.
Acknowledged(r) ==
    \/ Gateway /\ Deferred(r)
    \/ Webhook /\ r.http = DeferredAcknowledgment

EditAttempted(r) == Edits(r) # {}

C13_EventuallyEdited ==
    \A i \in Ids : Acknowledged(run[i]) ~> EditAttempted(run[i])

(***************************************************************************)
(* C14.  Every user-visible message of either mode (the immediate channel  *)
(* messages, the deferred acknowledgment, the final editReply or PATCH) is *)
(* ephemeral and carries mention suppression (allowed_mentions with an     *)
(* empty parse list).  Read in the code's favour: an edit is ephemeral     *)
(* when the reply it edits was created ephemeral, and only a message that  *)
(* has text needs the mention suppression.                                 *)
(***************************************************************************)
\* The HTTP responses that are interaction messages.
ResponseMessages(r) == {k \in DOMAIN r.http : r.http[k].body.hasData}

\* The reply the edits change was created ephemeral.
CreatedEphemeral(r) ==
    \/ \E k \in DOMAIN r.sent :
          r.sent[k].op = "deferReply" /\ r.sent[k].flags = "Ephemeral"
    \/ \E k \in ResponseMessages(r) :
          /\ r.http[k].body.type = "DeferredChannelMessageWithSource"
          /\ r.http[k].body.flags = "Ephemeral"

C14_EphemeralNoMentions ==
    \A i \in live :
        /\ \A k \in ResponseMessages(run[i]) :
              /\ run[i].http[k].body.flags = "Ephemeral"
              /\ run[i].http[k].body.content.t = "string" =>
                    run[i].http[k].body.allowed_mentions = "parse:[]"
        /\ \A k \in DOMAIN run[i].sent :
              /\ run[i].sent[k].flags = "Ephemeral" \/ CreatedEphemeral(run[i])
              /\ run[i].sent[k].content # "" =>
                    run[i].sent[k].allowed_mentions = "parse:[]"

(***************************************************************************)
(* C15.  As claimed: a POST /interactions whose signature header or        *)
(* timestamp header is missing or malformed (a signature that is not hex   *)
(* of the right length) is answered 401 {"error": "Invalid request         *)
(* signature"}.                                                            *)
(***************************************************************************)
MissingHeader(q) == q.signature.t # "string" \/ q.timestamp.t # "string"

\* Both headers are there and the signature is no signature at all.
MalformedSignature(q) ==
    /\ ~MissingHeader(q)
    /\ ~StartsWith(q.signature.v, "sig(")

\* The request was answered and its body did not fail to arrive.
Answered(r) == r.pc = "done" /\ ~Occurs(r.trace, "readRequestBody:throw")

C16_VerifyExceptionIs401 ==
    \A i \in live :
        (Webhook /\ Routed(run[i].req) /\ MalformedSignature(run[i].req)) =>
            /\ NoDownstreamCall(run[i])
            /\ BodyRead(run[i]) =>
                /\ run[i].pc = "done"
                /\ Len(run[i].http) = 1
                /\ run[i].http[1].status = 401
                /\ run[i].http[1].body = ErrorPayload("Bad request signature")
            /\ ~Occurs(run[i].trace, "readRequestBody:throw") =>
                  \A k \in DOMAIN run[i].http : run[i].http[k].status # 500

\* A request whose signature header is not a signature was answered.
C16_Witness ==
    \E i \in live :
        /\ Webhook /\ Routed(run[i].req)
        /\ run[i].req.signature = Str("zz")
        /\ run[i].req.timestamp = Str(Timestamp)
        /\ BodyRead(run[i])
        /\ run[i].http[1].status = 401

(***************************************************************************)
(* C17.  A verified request whose body is not JSON is answered 400         *)
(* {"error": "Invalid JSON payload"}; on this path no deferred             *)
(* acknowledgment is sent and no handleTask, provider call or PATCH is     *)
(* made.                                                                   *)
(***************************************************************************)
\* The raw body is the JSON text of no interaction.
NotJson(q) == \A p \in JsonTexts : p[1] # q.rawBody

VerifiedNotJson(r) == Routed(r.req) /\ Verifies(r.req) /\ NotJson(r.req)

C17_InvalidJson400 ==
    \A i \in live :
        (Webhook /\ VerifiedNotJson(run[i])) =>
            /\ NoDownstreamCall(run[i])
            /\ BodyRead(run[i]) =>
                /\ run[i].pc = "done"
                /\ run[i].http = JsonResponse(400, ErrorPayload("Invalid JSON payload"))

\* A body that is not JSON, with its valid signature, was answered.
C17_Witness ==
    \E i \in live :
        /\ Webhook /\ VerifiedNotJson(run[i])
        /\ run[i].req.rawBody = TextNotJson
        /\ BodyRead(run[i])
        /\ run[i].http[1].status = 400

(***************************************************************************)
(* C18.  A verified ApplicationCommand whose command sub-type is not       *)
(* ChatInput is answered at once with the 200 non-deferred ephemeral       *)
(* message "Unsupported command type."; no deferred acknowledgment, no     *)
(* handleTask, no provider call and no PATCH follow.                       *)
(***************************************************************************)
\* The raw body is the JSON text of a command of another sub-type.
OtherCommandType(q) ==
    \E p \in JsonTexts :
        /\ p[1] = q.rawBody
        /\ p[2].type = "ApplicationCommand"
        /\ p[2].hasData
        /\ p[2].dataType # "ChatInput"

VerifiedOtherCommand(r) ==
    Routed(r.req) /\ Verifies(r.req) /\ OtherCommandType(r.req)

C18_UnsupportedCommandType ==
    \A i \in live :
        (Webhook /\ VerifiedOtherCommand(run[i])) =>
            /\ NoDownstreamCall(run[i])
            /\ BodyRead(run[i]) =>
                /\ run[i].pc = "done"
                /\ run[i].http =
                     JsonResponse(200, MessagePayload("ChannelMessageWithSource",
                                                      Str("Unsupported command type."),
                                                      "Ephemeral", "parse:[]"))

\* A verified user command (of the context menu) was answered.
C18_Witness ==
    \E i \in live :
        /\ Webhook /\ VerifiedOtherCommand(run[i])
        /\ run[i].command.dataType = "User"
        /\ BodyRead(run[i])
        /\ Len(run[i].http) = 1

(***************************************************************************)
(* C19.  A verified, parseable interaction whose type is neither Ping nor  *)
(* ApplicationCommand is answered 400 {"error": "Unsupported interaction   *)
(* type"}, with no downstream call.                                        *)
(***************************************************************************)
\* The raw body is the JSON text of an interaction of another type.
OtherInteractionType(q) ==
    \E p \in JsonTexts :
        p[1] = q.rawBody /\ p[2].type \notin {"Ping", "ApplicationCommand"}

VerifiedOtherType(r) ==
    Routed(r.req) /\ Verifies(r.req) /\ OtherInteractionType(r.req)

C19_UnsupportedInteractionType ==
    \A i \in live :
        (Webhook /\ VerifiedOtherType(run[i])) =>
            /\ NoDownstreamCall(run[i])
            /\ BodyRead(run[i]) =>
                /\ run[i].pc = "done"
                /\ run[i].http =
                     JsonResponse(400, ErrorPayload("Unsupported interaction type"))

\* A verified message-component interaction was answered.
C19_Witness ==
    \E i \in live :
        /\ Webhook /\ VerifiedOtherType(run[i])
        /\ run[i].command.type = "MessageComponent"
        /\ BodyRead(run[i])
        /\ run[i].http[1].status = 400

(***************************************************************************)
(* C20.  An unexpected exception thrown while a request is handled (a      *)
(* verified command whose payload has no data field, a body that fails to  *)
(* arrive) is answered 500 {"error": "Internal Server Error"}, and the     *)
(* server keeps serving: every request, also one taken after a 500 and one *)
(* whose neighbour ends in 500, gets the answer its own headers and body   *)
(* call for.                                                               *)
(***************************************************************************)
\* The raw body is the JSON text of a command without a data field.
CommandLacksData(q) ==
    \E p \in JsonTexts :
        p[1] = q.rawBody /\ p[2].type = "ApplicationCommand" /\ ~p[2].hasData

\* The handling of the request threw outside every try of the handler.
UnexpectedException(r) ==
    \/ Occurs(r.trace, "readRequestBody:throw")
    \/ /\ BodyRead(r)
       /\ Routed(r.req) /\ Verifies(r.req) /\ CommandLacksData(r.req)

\* The status the HTTP interface assigns to a request whose body arrives.
StatusOf(q) ==
    IF q.method = "GET" THEN 200
    ELSE IF ~Routed(q) THEN 404
    ELSE IF ~Verifies(q) THEN 401
    ELSE IF NotJson(q) THEN 400
    ELSE IF OtherInteractionType(q) THEN 400
    ELSE IF CommandLacksData(q) THEN 500
    ELSE 200

C20_InternalError500 ==
    \A i \in live :
        Webhook =>
            /\ UnexpectedException(run[i]) =>
                /\ run[i].pc = "done"
                /\ run[i].http = JsonResponse(500, ErrorPayload("Internal Server Error"))
                /\ NoDownstreamCall(run[i])
            /\ (run[i].http # <<>> /\ ~Occurs(run[i].trace, "readRequestBody:throw")) =>
                /\ Len(run[i].http) = 1
                /\ run[i].http[1].status = StatusOf(run[i].req)

\* The first request ended in 500; the second, taken after it, was
\* acknowledged and its task was created and reported.
C20_Witness ==
    /\ Webhook
    /\ live = {1, 2}
    /\ UnexpectedException(run[1])
    /\ run[1].http[1].status = 500
    /\ run[2].http = DeferredAcknowledgment
    /\ run[2].pc = "done"
    /\ Len(run[2].sent) = 1
    /\ StartsWith(run[2].sent[1].content, "Created: ")
    /\ run[2].sent[1].result = "ok"

(***************************************************************************)
(* C21.  The routing of the webhook server is total and exclusive: every   *)
(* GET, whatever its path, is answered 200 text/plain "ok"; a POST whose   *)
(* path, the query string stripped, is /interactions goes to the           *)
(* interaction handling; every other method and path is answered 404       *)
(* text/plain "not found" and reaches no interaction handling.             *)
(***************************************************************************)
\* The request's URL is /interactions, with or without a query string.
InteractionsPath(q) ==
    /\ q.url.t = "string"
    /\ q.url.v = "/interactions" \/ StartsWith(q.url.v, "/interactions?")

\* The interaction handling was entered: it refused the headers or went on
\* to read the body.
InteractionHandling(r) ==
    \/ Occurs(r.trace, "readRequestBody:call")
    \/ r.http = JsonResponse(401, ErrorPayload("Invalid request signature"))

TextResponse(statusCode, text) ==
    <<[status |-> statusCode, contentType |-> "text/plain",
       body |-> [NoPayload EXCEPT !.text = text]]>>

C21_Routing ==
    \A i \in live :
        (Webhook /\ run[i].pc # "idle") =>
            IF run[i].req.method = "GET"
            THEN /\ run[i].http = TextResponse(200, "ok")
                 /\ run[i].pc = "done"
                 /\ ~InteractionHandling(run[i])
                 /\ NoDownstreamCall(run[i])
            ELSE IF run[i].req.method = "POST" /\ InteractionsPath(run[i].req)
            THEN InteractionHandling(run[i])
            ELSE /\ run[i].http = TextResponse(404, "not found")
                 /\ run[i].pc = "done"
                 /\ ~InteractionHandling(run[i])
                 /\ NoDownstreamCall(run[i])

\* A POST to /interactions with a query string reached the handling.
C21_Witness ==
    \E i \in live :
        /\ Webhook
        /\ run[i].req.method = "POST"
        /\ run[i].req.url = Str("/interactions?v=1")
        /\ Occurs(run[i].trace, "readRequestBody:return")

(***************************************************************************)
(* C22.  A failure of the context search is fatal to the pipeline: when    *)
(* findRepoContext throws, extractTask and createAsanaTask are not called  *)
(* for that interaction, and the message delivered is the failure message  *)
(* made from what was thrown, not a success message built with an empty    *)
(* context.  (handleTask.ts 28-51 and the webhook server.)                 *)
(***************************************************************************)
ContextThrew(r) == Occurs(r.trace, "findRepoContext:throw")

C22_ContextFailureFatal ==
    \A i \in live :
        (deploy.revision # "bare" /\ ContextThrew(run[i])) =>
            /\ ~Occurs(run[i].trace, "extractTask:call")
            /\ ~Occurs(run[i].trace, "createAsanaTask:call")
            /\ Len(run[i].calls) = 1
            /\ \A k \in Edits(run[i]) :
                  /\ StartsWith(run[i].sent[k].content, WarningPrefix)
                  /\ run[i].sent[k].content = FailureMessage(run[i].thrown)
            /\ run[i].pc = "done" => Cardinality(Edits(run[i])) = 1

\* The search threw an Error and the failure message was handed over.
C22_Witness ==
    \E i \in live :
        /\ deploy.revision = "guarded"
        /\ ContextThrew(run[i])
        /\ run[i].thrown = Err("request failed")
        /\ run[i].pc = "done"
        /\ Edits(run[i]) # {}
        /\ run[i].sent[Len(run[i].sent)].result = "ok"

(***************************************************************************)
(* C23.  extractTask fails rather than return a value that does not        *)
(* conform: when the provider's output is not parseable, or is JSON        *)
(* without a string title or a string body, extractTask rejects; so the    *)
(* task a run holds after extractTask returned has both, and               *)
(* createAsanaTask is never called with a name or notes taken from a       *)
(* payload that lacks them.                                                *)
(***************************************************************************)
Conforming(task) == task.title.t = "string" /\ task.body.t = "string"

C23_ExtractionConforms ==
    \A i \in live :
        /\ Occurs(run[i].trace, "extractTask:return") => Conforming(run[i].task)
        /\ \A k \in DOMAIN run[i].calls :
              run[i].calls[k].fn = "createAsanaTask" =>
                  /\ run[i].calls[k].name.t = "string"
                  /\ run[i].calls[k].notes.t = "string"

(***************************************************************************)
(* The functions on their own: an input is drawn, then the function is     *)
(* applied to it.                                                          *)
(***************************************************************************)
Pending == [none |-> TRUE]

\* CreateAsanaTaskParams (part_006 lines 5-11), as handleTask may pass them.
SinkParams ==
    {[NoArgs EXCEPT !.fn = "createAsanaTask", !.name = n,
                    !.notes = Str("Steps to reproduce"),
                    !.projectGid = p, !.sectionRef = Str("1102")] :
        n \in {Undefined, Str("Fix login bug")},
        p \in {Undefined, Str("1101"), Str("1201")}}

CreateAsanaTaskInputs ==
    {[fn |-> "createAsanaTask", args |-> a, outcome |-> o, result |-> Pending] :
        a \in SinkParams, o \in SinkOutcomes}

\* The options a command may carry (discord-api-types: a String option has a
\* value, a Subcommand has none).
UnitOptions ==
    {Option(n, "String", v) : n \in {"describe", "Describe", "project"},
                              v \in {"first", "second"}}
    \cup {Option(n, t, v) : n \in {"describe", "Describe", "project"},
                            t \in {"Integer"}, v \in {"7"}}
    \cup {Option(n, "Subcommand", "") : n \in {"describe", "Describe", "project"}}

UnitOptionLists ==
    {<<>>} \cup {<<a>> : a \in UnitOptions}
           \cup {<<a, b>> : a \in UnitOptions, b \in UnitOptions}

GetStringOptionInputs ==
    {[fn |-> "getStringOption",
      args |-> [hasOptions |-> h, options |-> l, name |-> n],
      outcome |-> Pending, result |-> Pending] :
        h \in {TRUE}, l \in UnitOptionLists, n \in {"describe", "project", "priority"}}
    \cup {[fn |-> "getStringOption",
           args |-> [hasOptions |-> FALSE, options |-> <<>>, name |-> n],
           outcome |-> Pending, result |-> Pending] :
             n \in {"describe", "project", "priority"}}

\* s with the byte at position p replaced by c.
MutateByte(s, p, c) == SubSeq(s, 1, p - 1) \o c \o SubSeq(s, p + 1, Len(s))

\* The strings that differ from s in exactly one byte.
SingleByteMutations(s) ==
    {MutateByte(s, p, c) : p \in 1..Len(s), c \in {"1", "7", "a"}} \ {s}

\* A (timestamp, body) pair is signed with a key; the request arrives as
\* signed, or with one byte of the timestamp or of the body changed, or with
\* a signature header that is not a signature.
VerifyInputs ==
    LET signed == [key : SecretKeys, timestamp : {"1", "17", "71"},
                   body : {"", "7", "a", "7a", "a7"}]
        arrived(x) ==
            {[signature |-> Sign(x.key, x.timestamp \o x.body),
              timestamp |-> x.timestamp, body |-> x.body,
              signed |-> x, mutated |-> "none"]}
            \cup {[signature |-> "zz",
                   timestamp |-> x.timestamp, body |-> x.body,
                   signed |-> x, mutated |-> "signature"]}
            \cup {[signature |-> Sign(x.key, x.timestamp \o x.body),
                   timestamp |-> t, body |-> x.body,
                   signed |-> x, mutated |-> "timestamp"] :
                     t \in SingleByteMutations(x.timestamp)}
            \cup {[signature |-> Sign(x.key, x.timestamp \o x.body),
                   timestamp |-> x.timestamp, body |-> b,
                   signed |-> x, mutated |-> "body"] :
                     b \in SingleByteMutations(x.body)}
    IN  {[fn |-> "verifyDiscordSignature", args |-> a, outcome |-> Pending,
          result |-> Pending] : a \in UNION {arrived(x) : x \in signed}}

UnitInputs == CreateAsanaTaskInputs \cup GetStringOptionInputs \cup VerifyInputs

UnitInit ==
    /\ env = [ASANA_PROJECT_GID |-> Str("1101"), ASANA_SECTION_GID |-> Str("1102")]
    /\ deploy = [entry |-> "webhook", revision |-> "execute"]
    /\ live = {}
    /\ run = [i \in Ids |-> RunInit]
    /\ unit \in UnitInputs

ApplyCreateAsanaTask ==
    /\ unit.fn = "createAsanaTask"
    /\ unit.result = Pending
    /\ unit' = [unit EXCEPT !.result = createAsanaTask(unit.args, unit.outcome)]
    /\ UNCHANGED <<env, deploy, live, run>>

ApplyGetStringOption ==
    /\ unit.fn = "getStringOption"
    /\ unit.result = Pending
    /\ unit' = [unit EXCEPT
                  !.result = [value |-> getStringOption(unit.args, unit.args.name)]]
    /\ UNCHANGED <<env, deploy, live, run>>

ApplyVerifyDiscordSignature ==
    /\ unit.fn = "verifyDiscordSignature"
    /\ unit.result = Pending
    /\ unit' = [unit EXCEPT
                  !.result = [value |-> verifyDiscordSignature(unit.args.signature,
                                                               unit.args.timestamp,
                                                               unit.args.body)]]
    /\ UNCHANGED <<env, deploy, live, run>>

UnitNext ==
    \/ ApplyCreateAsanaTask
    \/ ApplyGetStringOption
    \/ ApplyVerifyDiscordSignature

UnitSpec == UnitInit /\ [][UnitNext]_vars

Applied(fn) == unit.fn = fn /\ unit.result # Pending

\* The create response carries a task with a non-empty gid.
GidPresent(o) ==
    /\ o.ok
    /\ o.response.defined
    /\ o.response.hasData
    /\ o.response.gid.t = "string"
    /\ o.response.gid.v # ""

\* C24: createAsanaTask either returns the canonical URL
\* https://app.asana.com/0/<projectGid>/<task gid>, built from a non-empty
\* gid of the created task, or rejects; when the create response has no data
\* or no gid it rejects with 'Asana task creation returned no task gid', and
\* it never returns a URL with a missing gid.
C24_CanonicalUrlOrReject ==
    Applied("createAsanaTask") =>
        LET o == unit.outcome
            res == unit.result
        IN  /\ res.ok =>
                /\ GidPresent(o)
                /\ res.value = "https://app.asana.com/0/"
                               \o TemplateString(unit.args.projectGid)
                               \o "/" \o o.response.gid.v
            /\ (o.ok /\ ~GidPresent(o)) =>
                /\ ~res.ok
                /\ res.error = Err("Asana task creation returned no task gid")
            /\ ~o.ok => ~res.ok

C24_Witness ==
    /\ Applied("createAsanaTask")
    /\ unit.outcome.ok
    /\ unit.outcome.response.hasData
    /\ unit.outcome.response.gid = Undefined
    /\ ~unit.result.ok
    /\ unit.result.error.message = NoGidText

\* The positions of the String options called name.
StringOptionsNamed(options, name) ==
    {k \in 1..Len(options) : options[k].name = name /\ options[k].type = "String"}

\* C30: getStringOption(options, name) returns the value of the first option
\* of the flat list whose name equals name exactly and whose type is String,
\* and null when the list is undefined or has no such option; it returns
\* (does not throw) for every list, also one with an element of another type
\* carrying the same name.
C30_FirstStringOption ==
    Applied("getStringOption") =>
        LET a == unit.args
            at == StringOptionsNamed(a.options, a.name)
        IN  IF ~a.hasOptions \/ at = {}
            THEN unit.result.value = JsNull
            ELSE \E k \in at :
                    /\ \A j \in at : k <= j
                    /\ unit.result.value = Str(a.options[k].value)

\* An Integer option called describe is passed over for the String option
\* after it.
C30_Witness ==
    /\ Applied("getStringOption")
    /\ unit.args.name = "describe"
    /\ Len(unit.args.options) = 2
    /\ unit.args.options[1] = Option("describe", "Integer", "7")
    /\ unit.args.options[2] = Option("describe", "String", "second")
    /\ unit.result.value = Str("second")

\* The content is the success message for the URL the sink call of r returned.
SuccessForm(r, content) ==
    /\ Occurs(r.trace, "createAsanaTask:return")
    /\ StartsWith(r.asanaUrl, "https://app.asana.com/0/")
    /\ content = "Created: " \o r.asanaUrl

FailureForm(content) == StartsWith(content, "(!) Unable to create task: ")

\* C28: every final message of an interaction is either "Created: <url>",
\* and then the sink call of that run returned the URL, or a failure message
\* that begins with the warning prefix "(!) Unable to create task: "; no
\* final message has another form, such as an empty content.
C28_FinalMessageForms ==
    \A i \in live : \A k \in Edits(run[i]) :
        \/ SuccessForm(run[i], run[i].sent[k].content)
        \/ FailureForm(run[i].sent[k].content)

\* The edit of the success message threw and the failure message followed.
C28_Witness ==
    \E i \in live : \E k \in Edits(run[i]) : \E j \in Edits(run[i]) :
        /\ k < j
        /\ SuccessForm(run[i], run[i].sent[k].content)
        /\ FailureForm(run[i].sent[j].content)
        /\ ~SuccessForm(run[i], run[i].sent[j].content)
        /\ run[i].sent[j].result = "ok"

\* The option called name as the command of r carries it: the gateway's
\* getString(name), or the first String option of that name in the request.
OptionGiven(r, name) ==
    IF Gateway THEN r.event[name]
    ELSE LET options == JsonParse(r.req.rawBody).value.options
             at == StringOptionsNamed(options, name)
         IN  IF at = {} THEN JsNull
             ELSE Str(options[CHOOSE k \in at : \A j \in at : k <= j].value)

\* The option when it is present, otherwise the default.
OptionOrDefault(r, name, default) ==
    IF OptionGiven(r, name).t = "string" THEN OptionGiven(r, name) ELSE default

\* C29: the projectGid and sectionRef passed to createAsanaTask are the
\* command's project and section option when present and otherwise the
\* configured defaults ASANA_PROJECT_GID and ASANA_SECTION_GID; the priority
\* passed to extractTask is the priority option when present and otherwise
\* "p2".
C29_DestinationAndPriority ==
    \A i \in live : \A k \in DOMAIN run[i].calls :
        LET call == run[i].calls[k]
        IN  /\ call.fn = "createAsanaTask" =>
                /\ call.projectGid =
                     OptionOrDefault(run[i], "project", env.ASANA_PROJECT_GID)
                /\ call.sectionRef =
                     OptionOrDefault(run[i], "section", env.ASANA_SECTION_GID)
            /\ call.fn = "extractTask" =>
                call.priority = OptionOrDefault(run[i], "priority", Str("p2"))

\* A project option overrides a configured default and an absent section
\* option falls back to one.
C29_Witness ==
    \E i \in live : \E k \in DOMAIN run[i].calls :
        /\ run[i].calls[k].fn = "createAsanaTask"
        /\ OptionGiven(run[i], "project") = Str("1201")
        /\ env.ASANA_PROJECT_GID = Str("1101")
        /\ run[i].calls[k].projectGid = Str("1201")
        /\ OptionGiven(run[i], "section") = JsNull
        /\ run[i].calls[k].sectionRef = Str("1102")

(***************************************************************************)
(* Two interactions of the gateway client in flight at once: each event    *)
(* starts its own handleTask, whose awaits interleave with the other's.    *)
(***************************************************************************)
PairEvents ==
    {e \in GatewayEvents :
        /\ e.isChatInputCommand /\ e.commandName = "task"
        /\ e.describe = Str("Fix login bug")
        /\ e.project \in {JsNull, Str("1201")}
        /\ e.section = JsNull /\ e.priority = JsNull}

CommandArrives(i) ==
    /\ i \in live
    /\ deploy.entry = "gateway"
    /\ run[i].pc = "idle"
    /\ \E e \in PairEvents :
        Update(i, onInteractionCreate([run[i] EXCEPT !.event = e]))

PairInit ==
    /\ env = [ASANA_PROJECT_GID |-> Str("1101"), ASANA_SECTION_GID |-> Str("1102")]
    /\ deploy = [entry |-> "gateway", revision |-> "guarded"]
    /\ live = {1, 2}
    /\ run = [i \in Ids |-> RunInit]
    /\ unit = NoUnit

PairNext ==
    \E i \in Ids :
        \/ CommandArrives(i)
        \/ DeferReplySettles(i)
        \/ FindRepoContextSettles(i)
        \/ ExtractTaskSettles(i)
        \/ CreateAsanaTaskSettles(i)
        \/ EditReplySettles(i)
        \/ FailureEditReplySettles(i)

PairSpec == PairInit /\ [][PairNext]_vars

\* The run reported a created task.
ReportedCreated(r) ==
    \E k \in Edits(r) : StartsWith(r.sent[k].content, "Created: ")

SinkCalls(r) == {k \in DOMAIN r.calls : r.calls[k].fn = "createAsanaTask"}

\* C25: no deduplication: when the pipeline runs twice with identical inputs
\* and both runs succeed, each run makes its own createAsanaTask call, two
\* calls in all, and each call returns an item of its own.
C25_NoDeduplication ==
    \A i \in live : \A j \in live :
        (/\ i # j
         /\ run[i].event = run[j].event
         /\ ReportedCreated(run[i])
         /\ ReportedCreated(run[j])) =>
            /\ Cardinality(SinkCalls(run[i])) = 1
            /\ Cardinality(SinkCalls(run[j])) = 1
            /\ Occurs(run[i].trace, "createAsanaTask:return")
            /\ Occurs(run[j].trace, "createAsanaTask:return")

\* Both runs called the sink with the same arguments and both reported.
C25_Witness ==
    /\ live = {1, 2}
    /\ run[1].event = run[2].event
    /\ ReportedCreated(run[1]) /\ ReportedCreated(run[2])
    /\ \E k \in SinkCalls(run[1]) : \E l \in SinkCalls(run[2]) :
          run[1].calls[k] = run[2].calls[l]
    /\ run[1].pc = "done" /\ run[2].pc = "done"

(***************************************************************************)
(* The webhook server when the requests of one interaction reach it more   *)
(* than once: every request carries the interaction of token-a, so two     *)
(* deliveries of the same signed request are among the behaviours.         *)
(***************************************************************************)
RequestDelivered(i) ==
    /\ i \in live
    /\ deploy.entry = "webhook"
    /\ run[i].pc = "idle"
    /\ \E q \in ServerRequests("token-a") :
        Update(i, server_request([run[i] EXCEPT !.req = q]))

RedeliveryNext ==
    \/ Accept
    \/ \E i \in Ids :
        \/ RequestDelivered(i)
        \/ ReadRequestBodySettles(i)
        \/ ExecuteFindRepoContextSettles(i)
        \/ ExecuteExtractTaskSettles(i)
        \/ ExecuteCreateAsanaTaskSettles(i)
        \/ ThenCallback(i)
        \/ CatchCallback(i)
        \/ FetchSettles(i)
        \/ ResponseTextSettles(i)

RedeliverySpec == ServerInit /\ [][RedeliveryNext]_vars

\* The handlings of a verified request that created an Asana task.
CreatedBy(request) ==
    {i \in live : /\ run[i].req = request
                  /\ Verifies(request)
                  /\ Occurs(run[i].trace, "createAsanaTask:return")}

\* C26: idempotency guard: the same Discord interaction creates at most one
\* Asana task, also when the same signed interaction request is delivered to
\* the server more than once.
C26_AtMostOneTask ==
    \A i \in live : Cardinality(CreatedBy(run[i].req)) <= 1

\* The webhook address of the interaction the request of r carries.
OwnAddress(r) ==
    LET x == JsonParse(r.req.rawBody).value
    IN  x.application_id \o "/" \o x.token

\* What the pipeline of r came to: the success message for the URL its sink
\* call returned, or the failure message for what its provider call threw.
OwnResult(r) ==
    IF Occurs(r.trace, "createAsanaTask:return")
    THEN "Created: " \o r.asanaUrl
    ELSE FailureMessage(r.thrown)

\* Every edit of r is addressed to r's interaction and carries r's result.
OwnEdits(r) ==
    \A k \in Edits(r) :
        /\ r.sent[k].op = "PATCH"
        /\ r.sent[k].to = OwnAddress(r)
        /\ r.sent[k].content = OwnResult(r)

\* A step of one interaction leaves the other's calls and messages alone.
StepsApart ==
    \A i \in Ids : \A j \in Ids :
        (i # j /\ run'[i] # run[i]) => run'[j] = run[j]

\* C27: two concurrent interactions are independent under every
\* interleaving of their provider calls: each gets its own final edit,
\* addressed with its own application id and token and carrying the result
\* of its own pipeline, and whether one succeeds, fails or hangs never
\* changes the calls made or the message delivered for the other.
C27_Independent ==
    /\ [](\A i \in live : OwnEdits(run[i]))
    /\ [][StepsApart]_vars

\* The first interaction still awaits its sink while the second, which
\* arrived later, has had its failure message delivered.
C27_Witness ==
    /\ live = {1, 2}
    /\ run[1].pc = "createAsanaTask"
    /\ run[2].pc = "done"
    /\ \E k \in Edits(run[2]) :
          /\ run[2].sent[k].to = "app/token-b"
          /\ run[2].sent[k].result = "ok"
          /\ FailureForm(run[2].sent[k].content)

\* C31: with signatures modelled as an ideal detached signature over the
\* bytes timestamp || rawBody (timestamp first, no separator),
\* verifyDiscordSignature returns true for every (timestamp, body) pair
\* signed with the matching private key, and false for that signature after
\* any single-byte mutation of the body or of the timestamp.
C31_SignatureBindsTimestampAndBody ==
    Applied("verifyDiscordSignature") =>
        LET a == unit.args
        IN  /\ (a.mutated = "none" /\ a.signed.key = "discord-key") =>
                  unit.result.value = TRUE
            /\ a.mutated \in {"timestamp", "body"} =>
                  unit.result.value = FALSE

\* One byte of the timestamp of a pair signed with the matching key was
\* changed, and the signature is refused.
C31_Witness ==
    /\ Applied("verifyDiscordSignature")
    /\ unit.args.signed = [key |-> "discord-key", timestamp |-> "17", body |-> "7a"]
    /\ unit.args.mutated = "timestamp"
    /\ unit.args.timestamp = "77"
    /\ unit.result.value = FALSE

\* The first of the boundary checks the request fails, in the order header
\* presence, signature, JSON parse, interaction type, command sub-type,
\* describe presence; "none" when it passes them all or is a ping.
FirstFailingCheck(q) ==
    IF MissingHeader(q) THEN "header"
    ELSE IF ~Verifies(q) THEN "signature"
    ELSE IF NotJson(q) THEN "json"
    ELSE IF OtherInteractionType(q) THEN "interactionType"
    ELSE IF OtherCommandType(q) THEN "commandType"
    ELSE IF /\ BodyOfType(q, "ApplicationCommand")
            /\ ~CommandLacksData(q)
            /\ \A p \in JsonTexts : p[1] = q.rawBody =>
                  \A k \in DOMAIN p[2].options :
                      ~(/\ p[2].options[k].name = "describe"
                        /\ p[2].options[k].type = "String"
                        /\ p[2].options[k].value # "")
         THEN "describe"
    ELSE "none"

\* The response each failing check is answered with.
ResponseOfCheck(check) ==
    CASE check = "header" ->
           JsonResponse(401, ErrorPayload("Invalid request signature"))
      [] check = "signature" ->
           JsonResponse(401, ErrorPayload("Bad request signature"))
      [] check = "json" ->
           JsonResponse(400, ErrorPayload("Invalid JSON payload"))
      [] check = "interactionType" ->
           JsonResponse(400, ErrorPayload("Unsupported interaction type"))
      [] check = "commandType" ->
           JsonResponse(200, MessagePayload("ChannelMessageWithSource",
                                            Str("Unsupported command type."),
                                            "Ephemeral", "parse:[]"))
      [] check = "describe" ->
           JsonResponse(200, MessagePayload("ChannelMessageWithSource",
                                            Str("(!) Missing required 'describe' option."),
                                            "Ephemeral", "parse:[]"))

\* C32: the boundary checks run in a fixed order (header presence, signature
\* over the raw body, JSON parse, interaction type, command sub-type,
\* describe presence): a request that fails several checks gets the response
\* of the earliest failing one (a bad signature with an unparseable body
\* gets 401, not 400), and the body is never JSON-parsed before its
\* signature has verified.
C32_CheckOrder ==
    \A i \in live :
        LET r == run[i]
            check == FirstFailingCheck(r.req)
        IN  (Webhook /\ r.req.method = "POST" /\ InteractionsPath(r.req)) =>
                /\ (/\ r.http # <<>>
                    /\ ~Occurs(r.trace, "readRequestBody:throw")
                    /\ check # "none") => r.http = ResponseOfCheck(check)
                /\ \A k \in Positions(r.trace, "JSON.parse") :
                      /\ Verifies(r.req)
                      /\ Before(Positions(r.trace, "verifyDiscordSignature"), k) # {}

\* A body that is not JSON under a signature made with another key: 401,
\* and the body was not parsed.
C32_Witness ==
    \E i \in live :
        /\ Webhook /\ run[i].req.method = "POST" /\ InteractionsPath(run[i].req)
        /\ ~MissingHeader(run[i].req)
        /\ ~Verifies(run[i].req)
        /\ NotJson(run[i].req)
        /\ run[i].http = JsonResponse(401, ErrorPayload("Bad request signature"))
        /\ ~Occurs(run[i].trace, "JSON.parse")

\* The request handler of r has returned or thrown: it is past every await.
HandlerFinished(r) == r.req # NoRequest /\ r.pc # "readRequestBody"

\* C33: every HTTP request the webhook server handles receives exactly one
\* HTTP response: on every path through the request handler, the exception
\* path included, the response is ended (res.end) once and never twice, and
\* no path returns without ending it.
C33_ExactlyOneResponse ==
    \A i \in live :
        Webhook =>
            /\ Len(run[i].http) <= 1
            /\ Cardinality(Positions(run[i].trace, "res.end")) = Len(run[i].http)
            /\ HandlerFinished(run[i]) => Len(run[i].http) = 1
            /\ ~HandlerFinished(run[i]) => run[i].http = <<>>

\* The exception path: the body read rejected and the one response is the
\* 500 of the server's catch.
C33_Witness ==
    \E i \in live :
        /\ Webhook
        /\ Occurs(run[i].trace, "readRequestBody:throw")
        /\ HandlerFinished(run[i])
        /\ Len(run[i].http) = 1
        /\ run[i].http[1].status = 500

\* The failure messages that reached the requester.
DeliveredFailures(r) ==
    {k \in Edits(r) : r.sent[k].result = "ok" /\ FailureForm(r.sent[k].content)}

\* C34: whenever the last message delivered to the requester for an
\* interaction is a failure message (prefix "(!) Unable to create task:"),
\* no task was created in the sink for that interaction: a successful
\* createAsanaTask call is never followed by the delivery of the failure
\* message, also when the delivery of the success message itself fails.
C34_NoFailureAfterCreated ==
    \A i \in live :
        DeliveredFailures(run[i]) # {} =>
            ~Occurs(run[i].trace, "createAsanaTask:return")

\* The interaction of r is a chat-input command with another name than task.
OtherCommandName(r) ==
    IF Gateway
    THEN r.event.isChatInputCommand /\ r.event.commandName # "task"
    ELSE \E p \in JsonTexts :
            /\ p[1] = r.req.rawBody
            /\ p[2].type = "ApplicationCommand"
            /\ p[2].hasData
            /\ p[2].dataType = "ChatInput"
            /\ p[2].name # "task"

\* C35: the task pipeline is started only for chat-input command
\* interactions whose command name is "task": in both delivery modes an
\* interaction for any other command name triggers no deferred
\* acknowledgment, no provider call and no edit.
C35_OnlyTaskStartsPipeline ==
    \A i \in live :
        OtherCommandName(run[i]) =>
            /\ run[i].calls = <<>>
            /\ run[i].sent = <<>>
            /\ \A k \in DOMAIN run[i].http :
                  run[i].http[k].body.type # "DeferredChannelMessageWithSource"

\* A provider call of r threw; r.thrown is the value it threw.
ProviderThrew(r) ==
    \E f \in Providers : Occurs(r.trace, f \o ":throw")

\* C36: when the value thrown inside the pipeline is not an Error, or is an
\* Error with an empty message, the failure message is exactly
\* "(!) Unable to create task: Unexpected error while creating the Asana
\* task."; otherwise the cause after the prefix is exactly the thrown
\* Error's message.
C36_FailureCause ==
    \A i \in live :
        ProviderThrew(run[i]) =>
            \A k \in Edits(run[i]) :
                run[i].sent[k].content =
                    IF run[i].thrown.isError /\ run[i].thrown.message # ""
                    THEN "(!) Unable to create task: " \o run[i].thrown.message
                    ELSE "(!) Unable to create task: "
                         \o "Unexpected error while creating the Asana task."

\* An Error with an empty message was thrown and the generic text went out.
C36_Witness ==
    \E i \in live : \E k \in Edits(run[i]) :
        /\ ProviderThrew(run[i])
        /\ run[i].thrown = Err("")
        /\ run[i].sent[k].result = "ok"
        /\ run[i].sent[k].content =
             "(!) Unable to create task: Unexpected error while creating the Asana task."

====
